---- MODULE Spec2Model ----
(***************************************************************************)
(* The datadog_dashboard resource of the Terraform provider:               *)
(* src/datadog/resource_datadog_dashboard.go.                              *)
(*                                                                         *)
(* Go values are modelled as follows.                                      *)
(*  - map[string]interface{} and structs with pointer fields: a function   *)
(*    whose domain is the set of keys present / fields that are non-nil.   *)
(*  - slices: sequences.  A nil entry of a list of blocks: NilElem.        *)
(*  - error: a sequence of message fragments, NoErr when nil;              *)
(*    strings.Contains(err.Error(), s) is fragment membership.             *)
(*  - (value, error) results: a record [err, val].                         *)
(***************************************************************************)
EXTENDS Integers, Sequences, FiniteSets

\* the map with the one key k, holding v
k :> v == [x \in {k} |-> v]

\* the map with the keys of f and of g; on a key of both, the value of f
f @@ g ==
    [x \in (DOMAIN f) \cup (DOMAIN g) |-> IF x \in DOMAIN f THEN f[x] ELSE g[x]]

VARIABLES
    d,          \* the *schema.ResourceData the framework hands to the handlers
    remote,     \* the dashboards held by the Datadog API, id -> Board
    nextId,     \* how many ids the API has assigned so far
    ret,        \* what the last handler returned
    calls,      \* the API calls the last handler issued, in order
    pre,        \* d as it was when the last handler was entered
    deleted,    \* ids whose dashboard a Delete has removed
    conv        \* the last conversion applied on its own: function, argument, result

vars == <<d, remote, nextId, ret, calls, pre, deleted, conv>>

-----------------------------------------------------------------------------
(* Go plumbing *)

EmptyMap == [k \in {} |-> TRUE]

NilElem == [nil |-> TRUE]

NoErr == <<>>

Ok(v) == [err |-> NoErr, val |-> v]

Fail(e) == [err |-> e, val |-> NilElem]

\* fmt.Errorf(prefix + "%s", err.Error())
Errorf(prefix, e) == <<prefix>> \o e

\* strings.Contains(err.Error(), s)
Contains(e, s) == \E i \in 1..Len(e) : e[i] = s

\* if v, ok := m[k].(string); ok && len(v) != 0
StrSet(m, k) == k \in DOMAIN m /\ m[k] # ""

\* if v, ok := m[k].([]interface{}); ok && len(v) > 0
ListSet(m, k) == k \in DOMAIN m /\ Len(m[k]) > 0

\* if v, ok := m[k].(map[string]interface{}); ok && len(v) > 0
MapSet(m, k) == k \in DOMAIN m /\ DOMAIN m[k] # {}

\* one optional assignment: target[field] = value when cond holds
Opt(cond, field, value) == IF cond THEN field :> value ELSE EmptyMap

\* a copy that takes a present key for a set one, the empty string
\* included: C23 does not hold of it
OptStrEmptyCopied(m, k, field) == IF k \in DOMAIN m THEN field :> m[k] ELSE EmptyMap

\* copy of an optional string: set only when present and non-empty
OptStr(m, k, field) == IF StrSet(m, k) THEN field :> m[k] ELSE EmptyMap

\* copy of a pointer field back into a map: set only when non-nil
OptPtr(s, field, k) == IF field \in DOMAIN s THEN k :> s[field] ELSE EmptyMap

\* the index of the first element of a sequence of results that failed, 0 if none
FirstErr(rs) ==
    IF \E i \in 1..Len(rs) : rs[i].err # NoErr
    THEN CHOOSE i \in 1..Len(rs) :
            /\ rs[i].err # NoErr
            /\ \A j \in 1..(i - 1) : rs[j].err = NoErr
    ELSE 0

\* F applied to the value of v, with v evaluated once (a local variable)
Bind(v, F(_)) == CHOOSE r \in {F(x) : x \in {v}} : TRUE

-----------------------------------------------------------------------------
(* strconv on the numerals the configurations use; a float is held as a    *)
(* whole number of tenths                                                  *)

ParseFloat(s) ==
    CASE s = "36"   -> Ok(360)
      [] s = "36.0" -> Ok(360)
      [] s = "25"   -> Ok(250)
      [] s = "2.5"  -> Ok(25)
      [] s = "140"  -> Ok(1400)
      [] s = "500"  -> Ok(5000)
      [] OTHER      -> Fail(<<"strconv.ParseFloat: parsing ", s, ": invalid syntax">>)

\* strconv.FormatFloat(v, 'f', -1, 64)
FormatFloat(v) ==
    CASE v = 360  -> "36"
      [] v = 250  -> "25"
      [] v = 25   -> "2.5"
      [] v = 1400 -> "140"
      [] v = 5000 -> "500"
      [] OTHER    -> "0"

-----------------------------------------------------------------------------
(* Widget type discriminators of the API client *)

GROUP_WIDGET == "group"
NOTE_WIDGET == "note"
ALERT_GRAPH_WIDGET == "alert_graph"
ALERT_VALUE_WIDGET == "alert_value"
CHECK_STATUS_WIDGET == "check_status"
EVENT_STREAM_WIDGET == "event_stream"
FREE_TEXT_WIDGET == "free_text"
IFRAME_WIDGET == "iframe"
IMAGE_WIDGET == "image"
LOG_STREAM_WIDGET == "log_stream"
TIMESERIES_WIDGET == "timeseries"

\* the types the provider converts, in the order buildDatadogWidget tests them
SupportedTypes ==
    <<GROUP_WIDGET, NOTE_WIDGET, ALERT_GRAPH_WIDGET, ALERT_VALUE_WIDGET,
      CHECK_STATUS_WIDGET, FREE_TEXT_WIDGET, IFRAME_WIDGET, IMAGE_WIDGET,
      LOG_STREAM_WIDGET, TIMESERIES_WIDGET>>

\* the configuration field that holds the definition of a type
DefinitionField(type) == type \o "_definition"

-----------------------------------------------------------------------------
(* Template variables and notify list *)

buildDatadogTemplateVariables(terraformTemplateVariables) ==
    [i \in 1..Len(terraformTemplateVariables) |->
        LET tv == terraformTemplateVariables[i] IN
        OptStr(tv, "name", "Name") @@ OptStr(tv, "prefix", "Prefix")
            @@ OptStr(tv, "default", "Default")]

\* an encoder that fills the list from its end: C17 does not hold of it
buildTerraformTemplateVariablesReversed(datadogTemplateVariables) ==
    [i \in 1..Len(datadogTemplateVariables) |->
        LET tv == datadogTemplateVariables[Len(datadogTemplateVariables) + 1 - i] IN
        OptPtr(tv, "Name", "name") @@ OptPtr(tv, "Prefix", "prefix")
            @@ OptPtr(tv, "Default", "default")]

buildTerraformTemplateVariables(datadogTemplateVariables) ==
    [i \in 1..Len(datadogTemplateVariables) |->
        LET tv == datadogTemplateVariables[i] IN
        OptPtr(tv, "Name", "name") @@ OptPtr(tv, "Prefix", "prefix")
            @@ OptPtr(tv, "Default", "default")]

buildDatadogNotifyList(terraformNotifyList) ==
    [i \in 1..Len(terraformNotifyList) |-> terraformNotifyList[i]]

buildTerraformNotifyList(datadogNotifyList) ==
    [i \in 1..Len(datadogNotifyList) |-> datadogNotifyList[i]]

-----------------------------------------------------------------------------
(* Widget layout and time *)

\* one layout field: set when the string is non-empty and parses
LayoutField(terraformLayout, k, field) ==
    IF StrSet(terraformLayout, k) /\ ParseFloat(terraformLayout[k]).err = NoErr
    THEN field :> ParseFloat(terraformLayout[k]).val
    ELSE EmptyMap

\* a decoder that gives up on the whole layout when one field does not parse:
\* C22 does not hold of it
buildDatadogWidgetLayoutAllOrNothing(terraformLayout) ==
    IF \E k \in DOMAIN terraformLayout :
          terraformLayout[k] # "" /\ ParseFloat(terraformLayout[k]).err # NoErr
    THEN EmptyMap
    ELSE LayoutField(terraformLayout, "x", "X") @@ LayoutField(terraformLayout, "y", "Y")
            @@ LayoutField(terraformLayout, "height", "Height")
            @@ LayoutField(terraformLayout, "width", "Width")

buildDatadogWidgetLayout(terraformLayout) ==
    LayoutField(terraformLayout, "x", "X") @@ LayoutField(terraformLayout, "y", "Y")
        @@ LayoutField(terraformLayout, "height", "Height")
        @@ LayoutField(terraformLayout, "width", "Width")

TerraformLayoutField(datadogLayout, field, k) ==
    IF field \in DOMAIN datadogLayout
    THEN k :> FormatFloat(datadogLayout[field])
    ELSE EmptyMap

buildTerraformWidgetLayout(datadogLayout) ==
    TerraformLayoutField(datadogLayout, "X", "x")
        @@ TerraformLayoutField(datadogLayout, "Y", "y")
        @@ TerraformLayoutField(datadogLayout, "Height", "height")
        @@ TerraformLayoutField(datadogLayout, "Width", "width")

buildDatadogWidgetTime(terraformWidgetTime) ==
    OptStr(terraformWidgetTime, "live_span", "LiveSpan")

buildTerraformWidgetTime(datadogWidgetTime) ==
    OptPtr(datadogWidgetTime, "LiveSpan", "live_span")

\* if v, ok := def["time"].(map[string]interface{}); ok && len(v) > 0
OptTime(terraformDefinition) ==
    IF MapSet(terraformDefinition, "time")
    THEN "Time" :> buildDatadogWidgetTime(terraformDefinition["time"])
    ELSE EmptyMap

TerraformOptTime(datadogDefinition) ==
    IF "Time" \in DOMAIN datadogDefinition
    THEN "time" :> buildTerraformWidgetTime(datadogDefinition["Time"])
    ELSE EmptyMap

-----------------------------------------------------------------------------
(* Required fields.  The decoders read them with an unchecked type         *)
(* assertion and the encoders with an unchecked pointer dereference: when   *)
(* the field is missing the goroutine panics.  A value that carries the    *)
(* key "panic" stands for that run-time panic.                             *)

PanicKey == "panic"

\* datadog.String(m[k].(string))
Required(m, k, field) ==
    IF k \in DOMAIN m
    THEN field :> m[k]
    ELSE PanicKey :> "interface conversion: interface {} is nil, not string"

\* m[k] = *s.field
RequiredPtr(s, field, k) ==
    IF field \in DOMAIN s
    THEN k :> s[field]
    ELSE PanicKey :> "invalid memory address or nil pointer dereference"

Panicked(v) == PanicKey \in DOMAIN v

PanicErr(v) == <<"panic: ", v[PanicKey]>>

IsPanic(e) == Len(e) > 0 /\ e[1] = "panic: "

\* if v, ok := m[k].([]interface{}); ok && len(v) > 0 { copy the strings }
OptStrList(m, k, field) == IF ListSet(m, k) THEN field :> m[k] ELSE EmptyMap

-----------------------------------------------------------------------------
(* Note *)

buildDatadogNoteDefinition(terraformDefinition) ==
    ("Type" :> NOTE_WIDGET)
        @@ Required(terraformDefinition, "content", "Content")
        @@ OptStr(terraformDefinition, "background_color", "BackgroundColor")
        @@ OptStr(terraformDefinition, "font_size", "FontSize")
        @@ OptStr(terraformDefinition, "text_align", "TextAlign")
        @@ Opt("show_tick" \in DOMAIN terraformDefinition, "ShowTick",
               terraformDefinition["show_tick"])
        @@ OptStr(terraformDefinition, "tick_pos", "TickPos")
        @@ OptStr(terraformDefinition, "tick_edge", "TickEdge")

buildTerraformNoteDefinition(datadogDefinition) ==
    RequiredPtr(datadogDefinition, "Content", "content")
        @@ OptPtr(datadogDefinition, "BackgroundColor", "background_color")
        @@ OptPtr(datadogDefinition, "FontSize", "font_size")
        @@ OptPtr(datadogDefinition, "TextAlign", "text_align")
        @@ OptPtr(datadogDefinition, "ShowTick", "show_tick")
        @@ OptPtr(datadogDefinition, "TickPos", "tick_pos")
        @@ OptPtr(datadogDefinition, "TickEdge", "tick_edge")

(* Alert graph *)

buildDatadogAlertGraphDefinition(terraformDefinition) ==
    ("Type" :> ALERT_GRAPH_WIDGET)
        @@ Required(terraformDefinition, "alert_id", "AlertId")
        @@ Required(terraformDefinition, "viz_type", "VizType")
        @@ OptStr(terraformDefinition, "title", "Title")
        @@ OptStr(terraformDefinition, "title_size", "TitleSize")
        @@ OptStr(terraformDefinition, "title_align", "TitleAlign")
        @@ OptTime(terraformDefinition)

buildTerraformAlertGraphDefinition(datadogDefinition) ==
    RequiredPtr(datadogDefinition, "AlertId", "alert_id")
        @@ RequiredPtr(datadogDefinition, "VizType", "viz_type")
        @@ OptPtr(datadogDefinition, "Title", "title")
        @@ OptPtr(datadogDefinition, "TitleSize", "title_size")
        @@ OptPtr(datadogDefinition, "TitleAlign", "title_align")
        @@ TerraformOptTime(datadogDefinition)

(* Alert value *)

buildDatadogAlertValueDefinition(terraformDefinition) ==
    ("Type" :> ALERT_VALUE_WIDGET)
        @@ Required(terraformDefinition, "alert_id", "AlertId")
        @@ Opt("precision" \in DOMAIN terraformDefinition
                   /\ terraformDefinition["precision"] # 0,
               "Precision", terraformDefinition["precision"])
        @@ OptStr(terraformDefinition, "unit", "Unit")
        @@ OptStr(terraformDefinition, "text_align", "TextAlign")
        @@ OptStr(terraformDefinition, "title", "Title")
        @@ OptStr(terraformDefinition, "title_size", "TitleSize")
        @@ OptStr(terraformDefinition, "title_align", "TitleAlign")

buildTerraformAlertValueDefinition(datadogDefinition) ==
    RequiredPtr(datadogDefinition, "AlertId", "alert_id")
        @@ OptPtr(datadogDefinition, "Precision", "precision")
        @@ OptPtr(datadogDefinition, "Unit", "unit")
        @@ OptPtr(datadogDefinition, "TextAlign", "text_align")
        @@ OptPtr(datadogDefinition, "Title", "title")
        @@ OptPtr(datadogDefinition, "TitleSize", "title_size")
        @@ OptPtr(datadogDefinition, "TitleAlign", "title_align")

(* Check status *)

buildDatadogCheckStatusDefinition(terraformDefinition) ==
    ("Type" :> CHECK_STATUS_WIDGET)
        @@ Required(terraformDefinition, "check", "Check")
        @@ Required(terraformDefinition, "grouping", "Grouping")
        @@ OptStr(terraformDefinition, "group", "Group")
        @@ OptStrList(terraformDefinition, "group_by", "GroupBy")
        @@ OptStrList(terraformDefinition, "tags", "Tags")
        @@ OptStr(terraformDefinition, "title", "Title")
        @@ OptStr(terraformDefinition, "title_size", "TitleSize")
        @@ OptStr(terraformDefinition, "title_align", "TitleAlign")
        @@ OptTime(terraformDefinition)

buildTerraformCheckStatusDefinition(datadogDefinition) ==
    RequiredPtr(datadogDefinition, "Check", "check")
        @@ RequiredPtr(datadogDefinition, "Grouping", "grouping")
        @@ OptPtr(datadogDefinition, "Group", "group")
        @@ OptPtr(datadogDefinition, "GroupBy", "group_by")
        @@ OptPtr(datadogDefinition, "Tags", "tags")
        @@ OptPtr(datadogDefinition, "Title", "title")
        @@ OptPtr(datadogDefinition, "TitleSize", "title_size")
        @@ OptPtr(datadogDefinition, "TitleAlign", "title_align")
        @@ TerraformOptTime(datadogDefinition)

(* Free text *)

buildDatadogFreeTextDefinition(terraformDefinition) ==
    ("Type" :> FREE_TEXT_WIDGET)
        @@ Required(terraformDefinition, "text", "Text")
        @@ OptStr(terraformDefinition, "color", "Color")
        @@ OptStr(terraformDefinition, "font_size", "FontSize")
        @@ OptStr(terraformDefinition, "text_align", "TextAlign")

buildTerraformFreeTextDefinition(datadogDefinition) ==
    RequiredPtr(datadogDefinition, "Text", "text")
        @@ OptPtr(datadogDefinition, "Color", "color")
        @@ OptPtr(datadogDefinition, "FontSize", "font_size")
        @@ OptPtr(datadogDefinition, "TextAlign", "text_align")

(* Iframe *)

buildDatadogIframeDefinition(terraformDefinition) ==
    ("Type" :> IFRAME_WIDGET) @@ Required(terraformDefinition, "url", "Url")

buildTerraformIframeDefinition(datadogDefinition) ==
    RequiredPtr(datadogDefinition, "Url", "url")

(* Image *)

buildDatadogImageDefinition(terraformDefinition) ==
    ("Type" :> IMAGE_WIDGET)
        @@ Required(terraformDefinition, "url", "Url")
        @@ OptStr(terraformDefinition, "sizing", "Sizing")
        @@ OptStr(terraformDefinition, "margin", "Margin")

buildTerraformImageDefinition(datadogDefinition) ==
    RequiredPtr(datadogDefinition, "Url", "url")
        @@ OptPtr(datadogDefinition, "Sizing", "sizing")
        @@ OptPtr(datadogDefinition, "Margin", "margin")

(* Log stream *)

buildDatadogLogStreamDefinition(terraformDefinition) ==
    ("Type" :> LOG_STREAM_WIDGET)
        @@ Required(terraformDefinition, "logset", "Logset")
        @@ OptStr(terraformDefinition, "query", "Query")
        @@ OptStrList(terraformDefinition, "columns", "Columns")
        @@ OptStr(terraformDefinition, "title", "Title")
        @@ OptStr(terraformDefinition, "title_size", "TitleSize")
        @@ OptStr(terraformDefinition, "title_align", "TitleAlign")
        @@ OptTime(terraformDefinition)

buildTerraformLogStreamDefinition(datadogDefinition) ==
    RequiredPtr(datadogDefinition, "Logset", "logset")
        @@ OptPtr(datadogDefinition, "Query", "query")
        @@ OptPtr(datadogDefinition, "Columns", "columns")
        @@ OptPtr(datadogDefinition, "Title", "title")
        @@ OptPtr(datadogDefinition, "TitleSize", "title_size")
        @@ OptPtr(datadogDefinition, "TitleAlign", "title_align")
        @@ TerraformOptTime(datadogDefinition)

-----------------------------------------------------------------------------
(* Panics inside nested values unwind to the caller *)

PanicVal(msg) == PanicKey :> msg

NilMapPanic == "interface conversion: interface {} is nil, not map[string]interface {}"

SeqPanicked(vs) == \E i \in 1..Len(vs) : Panicked(vs[i])

FirstPanic(vs) ==
    vs[CHOOSE i \in 1..Len(vs) :
          Panicked(vs[i]) /\ \A j \in 1..(i - 1) : ~Panicked(vs[j])]

\* the value v built from the parts, unless one of the parts panicked
Unwind(parts, v) == IF SeqPanicked(parts) THEN FirstPanic(parts) ELSE v

-----------------------------------------------------------------------------
(* strconv.ParseInt / FormatInt on the numerals the configurations use *)

ParseInt(s) ==
    CASE s = "5"  -> Ok(5)
      [] s = "60" -> Ok(60)
      [] OTHER    -> Fail(<<"strconv.ParseInt: parsing ", s, ": invalid syntax">>)

FormatInt(v) ==
    CASE v = 5  -> "5"
      [] v = 60 -> "60"
      [] OTHER  -> "0"

-----------------------------------------------------------------------------
(* Query fragments.  A map value whose Go dynamic type matters carries it  *)
(* in "dyn" and its entries in "kv".                                       *)

StringMapType == "map[string]string"

InterfaceMapType == "map[string]interface {}"

\* if sort, ok := groupBy["sort"].(map[string]string); ok && len(sort) > 0
SortSet(groupBy) ==
    /\ "sort" \in DOMAIN groupBy
    /\ groupBy["sort"].dyn = StringMapType
    /\ DOMAIN groupBy["sort"].kv # {}

\* sort[k] on a map[string]string: the zero value when the key is absent
SortGet(kv, k) == IF k \in DOMAIN kv THEN kv[k] ELSE ""

buildDatadogGroupBySort(kv) ==
    [Aggregation |-> SortGet(kv, "aggregation"), Order |-> SortGet(kv, "order")]
        @@ Opt(SortGet(kv, "facet") # "", "Facet", SortGet(kv, "facet"))

buildDatadogGroupBy(groupBy) ==
    IF groupBy = NilElem THEN PanicVal(NilMapPanic)
    ELSE Required(groupBy, "facet", "Facet")
            @@ Opt("limit" \in DOMAIN groupBy /\ groupBy["limit"] # 0,
                   "Limit", groupBy["limit"])
            @@ Opt(SortSet(groupBy), "Sort", buildDatadogGroupBySort(groupBy["sort"].kv))

buildDatadogCompute(terraformCompute) ==
    Required(terraformCompute, "aggregation", "Aggregation")
        @@ OptStr(terraformCompute, "facet", "Facet")
        @@ (IF "interval" \notin DOMAIN terraformCompute
            THEN PanicVal("interface conversion: interface {} is nil, not string")
            ELSE Opt(ParseInt(terraformCompute["interval"]).err = NoErr,
                     "Interval", ParseInt(terraformCompute["interval"]).val))

buildDatadogApmOrLogQuery(terraformQuery) ==
    LET index == Required(terraformQuery, "index", "Index")
        compute == IF "compute" \in DOMAIN terraformQuery
                   THEN buildDatadogCompute(terraformQuery["compute"])
                   ELSE PanicVal(NilMapPanic)
        search == IF MapSet(terraformQuery, "search")
                  THEN Required(terraformQuery["search"], "query", "Query")
                  ELSE EmptyMap
        groupBys == IF ListSet(terraformQuery, "group_by")
                    THEN [i \in 1..Len(terraformQuery["group_by"]) |->
                             buildDatadogGroupBy(terraformQuery["group_by"][i])]
                    ELSE <<>>
    IN  Unwind(<<index, compute, search>> \o groupBys,
               index @@ ("Compute" :> compute)
                   @@ Opt(MapSet(terraformQuery, "search"), "Search", search)
                   @@ Opt(ListSet(terraformQuery, "group_by"), "GroupBy", groupBys))

buildTerraformGroupBy(groupBy) ==
    LET sort == IF "Sort" \in DOMAIN groupBy
                THEN RequiredPtr(groupBy["Sort"], "Aggregation", "aggregation")
                        @@ RequiredPtr(groupBy["Sort"], "Order", "order")
                        @@ OptPtr(groupBy["Sort"], "Facet", "facet")
                ELSE EmptyMap
        facet == RequiredPtr(groupBy, "Facet", "facet")
    IN  Unwind(<<facet, sort>>,
               facet @@ OptPtr(groupBy, "Limit", "limit")
                   @@ Opt("Sort" \in DOMAIN groupBy, "sort",
                          [dyn |-> StringMapType, kv |-> sort]))

buildTerraformApmOrLogQuery(datadogQuery) ==
    LET index == RequiredPtr(datadogQuery, "Index", "index")
        compute ==
            IF "Compute" \notin DOMAIN datadogQuery
            THEN PanicVal("invalid memory address or nil pointer dereference")
            ELSE RequiredPtr(datadogQuery["Compute"], "Aggregation", "aggregation")
                    @@ OptPtr(datadogQuery["Compute"], "Facet", "facet")
                    @@ Opt("Interval" \in DOMAIN datadogQuery["Compute"], "interval",
                           FormatInt(datadogQuery["Compute"]["Interval"]))
        search == IF "Search" \in DOMAIN datadogQuery
                  THEN RequiredPtr(datadogQuery["Search"], "Query", "query")
                  ELSE EmptyMap
        groupBys == IF "GroupBy" \in DOMAIN datadogQuery
                    THEN [i \in 1..Len(datadogQuery["GroupBy"]) |->
                             buildTerraformGroupBy(datadogQuery["GroupBy"][i])]
                    ELSE <<>>
    IN  Unwind(<<index, compute, search>> \o groupBys,
               index @@ ("compute" :> compute)
                   @@ Opt("Search" \in DOMAIN datadogQuery, "search", search)
                   @@ Opt("GroupBy" \in DOMAIN datadogQuery, "group_by", groupBys))

buildDatadogProcessQuery(terraformQuery) ==
    OptStr(terraformQuery, "metric", "Metric")
        @@ OptStr(terraformQuery, "search_by", "SearchBy")
        @@ OptStrList(terraformQuery, "filter_by", "FilterBy")
        @@ Opt("limit" \in DOMAIN terraformQuery /\ terraformQuery["limit"] # 0,
               "Limit", terraformQuery["limit"])

buildTerraformProcessQuery(datadogQuery) ==
    OptPtr(datadogQuery, "Metric", "metric")
        @@ OptPtr(datadogQuery, "SearchBy", "search_by")
        @@ OptPtr(datadogQuery, "FilterBy", "filter_by")
        @@ OptPtr(datadogQuery, "Limit", "limit")

-----------------------------------------------------------------------------
(* Timeseries *)

\* v[0].(map[string]interface{}) followed by the query decoder
FirstQuery(v, Build(_)) ==
    IF v[1] = NilElem THEN PanicVal(NilMapPanic) ELSE Build(v[1])

\* a choice that tests log_query before apm_query: C19 does not hold of it
RequestQueryKindLogFirst(terraformRequest) ==
    IF StrSet(terraformRequest, "q") THEN "q"
    ELSE IF ListSet(terraformRequest, "log_query") THEN "log_query"
    ELSE IF ListSet(terraformRequest, "apm_query") THEN "apm_query"
    ELSE IF ListSet(terraformRequest, "process_query") THEN "process_query"
    ELSE "none"

\* which of the query alternatives of a request is decoded
RequestQueryKind(terraformRequest) ==
    IF StrSet(terraformRequest, "q") THEN "q"
    ELSE IF ListSet(terraformRequest, "apm_query") THEN "apm_query"
    ELSE IF ListSet(terraformRequest, "log_query") THEN "log_query"
    ELSE IF ListSet(terraformRequest, "process_query") THEN "process_query"
    ELSE "none"

buildDatadogTimeseriesRequest(terraformRequest) ==
    IF terraformRequest = NilElem THEN PanicVal(NilMapPanic)
    ELSE LET kind == RequestQueryKind(terraformRequest)
             query ==
                 CASE kind = "apm_query" ->
                        FirstQuery(terraformRequest["apm_query"], buildDatadogApmOrLogQuery)
                   [] kind = "log_query" ->
                        FirstQuery(terraformRequest["log_query"], buildDatadogApmOrLogQuery)
                   [] kind = "process_query" ->
                        FirstQuery(terraformRequest["process_query"],
                                   buildDatadogProcessQuery)
                   [] OTHER -> EmptyMap
         IN  Unwind(<<query>>,
                    Opt(kind = "q", "MetricQuery", terraformRequest["q"])
                        @@ Opt(kind = "apm_query", "ApmQuery", query)
                        @@ Opt(kind = "log_query", "LogQuery", query)
                        @@ Opt(kind = "process_query", "ProcessQuery", query)
                        @@ OptStr(terraformRequest, "display_type", "DisplayType"))

buildDatadogTimeseriesRequests(terraformRequests) ==
    [i \in 1..Len(terraformRequests) |->
        buildDatadogTimeseriesRequest(terraformRequests[i])]

\* which of the query slots of a request is encoded
RequestQuerySlot(datadogRequest) ==
    IF "MetricQuery" \in DOMAIN datadogRequest THEN "MetricQuery"
    ELSE IF "ApmQuery" \in DOMAIN datadogRequest THEN "ApmQuery"
    ELSE IF "LogQuery" \in DOMAIN datadogRequest THEN "LogQuery"
    ELSE IF "ProcessQuery" \in DOMAIN datadogRequest THEN "ProcessQuery"
    ELSE "none"

buildTerraformTimeseriesRequest(datadogRequest) ==
    LET slot == RequestQuerySlot(datadogRequest)
        query ==
            CASE slot = "ApmQuery" -> buildTerraformApmOrLogQuery(datadogRequest["ApmQuery"])
              [] slot = "LogQuery" -> buildTerraformApmOrLogQuery(datadogRequest["LogQuery"])
              [] slot = "ProcessQuery" ->
                    buildTerraformProcessQuery(datadogRequest["ProcessQuery"])
              [] OTHER -> EmptyMap
    IN  Unwind(<<query>>,
               Opt(slot = "MetricQuery", "q", datadogRequest["MetricQuery"])
                   @@ Opt(slot = "ApmQuery", "apm_query", <<query>>)
                   @@ Opt(slot = "LogQuery", "log_query", <<query>>)
                   @@ Opt(slot = "ProcessQuery", "process_query", <<query>>)
                   @@ OptPtr(datadogRequest, "DisplayType", "display_type"))

buildTerraformTimeseriesRequests(datadogTimeseriesRequests) ==
    [i \in 1..Len(datadogTimeseriesRequests) |->
        buildTerraformTimeseriesRequest(datadogTimeseriesRequests[i])]

buildDatadogWidgetMarker(terraformMarker) ==
    IF terraformMarker = NilElem THEN PanicVal(NilMapPanic)
    ELSE Required(terraformMarker, "value", "Value")
            @@ OptStr(terraformMarker, "display_type", "DisplayType")
            @@ OptStr(terraformMarker, "label", "Label")

buildDatadogWidgetMarkers(terraformWidgetMarkers) ==
    [i \in 1..Len(terraformWidgetMarkers) |->
        buildDatadogWidgetMarker(terraformWidgetMarkers[i])]

buildTerraformWidgetMarkers(datadogWidgetMarkers) ==
    [i \in 1..Len(datadogWidgetMarkers) |->
        RequiredPtr(datadogWidgetMarkers[i], "Value", "value")
            @@ OptPtr(datadogWidgetMarkers[i], "DisplayType", "display_type")
            @@ OptPtr(datadogWidgetMarkers[i], "Label", "label")]

\* a decoder that copies show_legend and legend_size: C30 does not hold of it
buildDatadogTimeseriesDefinitionWithLegend(terraformDefinition) ==
    IF "request" \notin DOMAIN terraformDefinition
    THEN PanicVal("interface conversion: interface {} is nil, not []interface {}")
    ELSE LET requests == buildDatadogTimeseriesRequests(terraformDefinition["request"])
             markers == IF ListSet(terraformDefinition, "marker")
                        THEN buildDatadogWidgetMarkers(terraformDefinition["marker"])
                        ELSE <<>>
         IN  Unwind(requests \o markers,
                    [Type |-> TIMESERIES_WIDGET, Requests |-> requests]
                        @@ Opt(ListSet(terraformDefinition, "marker"), "Markers", markers)
                        @@ OptStr(terraformDefinition, "title", "Title")
                        @@ OptStr(terraformDefinition, "title_size", "TitleSize")
                        @@ OptStr(terraformDefinition, "title_align", "TitleAlign")
                        @@ Opt("show_legend" \in DOMAIN terraformDefinition,
                               "ShowLegend", terraformDefinition["show_legend"])
                        @@ OptStr(terraformDefinition, "legend_size", "LegendSize")
                        @@ OptTime(terraformDefinition))

buildDatadogTimeseriesDefinition(terraformDefinition) ==
    IF "request" \notin DOMAIN terraformDefinition
    THEN PanicVal("interface conversion: interface {} is nil, not []interface {}")
    ELSE LET requests == buildDatadogTimeseriesRequests(terraformDefinition["request"])
             markers == IF ListSet(terraformDefinition, "marker")
                        THEN buildDatadogWidgetMarkers(terraformDefinition["marker"])
                        ELSE <<>>
         IN  Unwind(requests \o markers,
                    [Type |-> TIMESERIES_WIDGET, Requests |-> requests]
                        @@ Opt(ListSet(terraformDefinition, "marker"), "Markers", markers)
                        @@ OptStr(terraformDefinition, "title", "Title")
                        @@ OptStr(terraformDefinition, "title_size", "TitleSize")
                        @@ OptStr(terraformDefinition, "title_align", "TitleAlign")
                        @@ OptTime(terraformDefinition))

buildTerraformTimeseriesDefinition(datadogDefinition) ==
    LET requests == IF "Requests" \in DOMAIN datadogDefinition
                    THEN buildTerraformTimeseriesRequests(datadogDefinition["Requests"])
                    ELSE <<>>
        markers == IF "Markers" \in DOMAIN datadogDefinition
                   THEN buildTerraformWidgetMarkers(datadogDefinition["Markers"])
                   ELSE <<>>
    IN  Unwind(requests \o markers,
               ("request" :> requests)
                   @@ Opt("Markers" \in DOMAIN datadogDefinition, "marker", markers)
                   @@ OptPtr(datadogDefinition, "Title", "title")
                   @@ OptPtr(datadogDefinition, "TitleSize", "title_size")
                   @@ OptPtr(datadogDefinition, "TitleAlign", "title_align")
                   @@ TerraformOptTime(datadogDefinition))

-----------------------------------------------------------------------------
(* Widgets.  The API client's GetWidgetType names the Definition a widget   *)
(* holds; it fails on a Definition it does not know, and on none.           *)

ClientTypes ==
    {GROUP_WIDGET, NOTE_WIDGET, ALERT_GRAPH_WIDGET, ALERT_VALUE_WIDGET,
     CHECK_STATUS_WIDGET, EVENT_STREAM_WIDGET, FREE_TEXT_WIDGET, IFRAME_WIDGET,
     IMAGE_WIDGET, LOG_STREAM_WIDGET, TIMESERIES_WIDGET}

GetWidgetType(datadogWidget) ==
    IF "Definition" \in DOMAIN datadogWidget
           /\ datadogWidget["Definition"]["Type"] \in ClientTypes
    THEN Ok(datadogWidget["Definition"]["Type"])
    ELSE Fail(<<"Unsupported widget type">>)

NoDefinitionError == <<"Failed to find valid definition in widget configuration">>

\* a selection of the last populated definition field instead of the first:
\* C11 does not hold of it
SelectedFieldLast(terraformWidget) ==
    IF \E i \in 1..Len(SupportedTypes) :
           ListSet(terraformWidget, DefinitionField(SupportedTypes[i]))
    THEN DefinitionField(SupportedTypes[
             CHOOSE i \in 1..Len(SupportedTypes) :
                /\ ListSet(terraformWidget, DefinitionField(SupportedTypes[i]))
                /\ \A j \in (i + 1)..Len(SupportedTypes) :
                      ~ListSet(terraformWidget, DefinitionField(SupportedTypes[j]))])
    ELSE "none"

\* the definition field buildDatadogWidget selects: the first, in the order of
\* its if / else if chain, that holds a non-empty list; "none" when there is none
SelectedField(terraformWidget) ==
    IF \E i \in 1..Len(SupportedTypes) :
           ListSet(terraformWidget, DefinitionField(SupportedTypes[i]))
    THEN DefinitionField(SupportedTypes[
             CHOOSE i \in 1..Len(SupportedTypes) :
                /\ ListSet(terraformWidget, DefinitionField(SupportedTypes[i]))
                /\ \A j \in 1..(i - 1) :
                      ~ListSet(terraformWidget, DefinitionField(SupportedTypes[j]))])
    ELSE "none"

\* the decoder of a non-group definition field
buildDatadogDefinition(field, def) ==
    CASE field = "note_definition"         -> buildDatadogNoteDefinition(def)
      [] field = "alert_graph_definition"  -> buildDatadogAlertGraphDefinition(def)
      [] field = "alert_value_definition"  -> buildDatadogAlertValueDefinition(def)
      [] field = "check_status_definition" -> buildDatadogCheckStatusDefinition(def)
      [] field = "free_text_definition"    -> buildDatadogFreeTextDefinition(def)
      [] field = "iframe_definition"       -> buildDatadogIframeDefinition(def)
      [] field = "image_definition"        -> buildDatadogImageDefinition(def)
      [] field = "log_stream_definition"   -> buildDatadogLogStreamDefinition(def)
      [] field = "timeseries_definition"   -> buildDatadogTimeseriesDefinition(def)

\* the encoder of a non-group definition
buildTerraformDefinition(type, def) ==
    CASE type = NOTE_WIDGET         -> buildTerraformNoteDefinition(def)
      [] type = ALERT_GRAPH_WIDGET  -> buildTerraformAlertGraphDefinition(def)
      [] type = ALERT_VALUE_WIDGET  -> buildTerraformAlertValueDefinition(def)
      [] type = CHECK_STATUS_WIDGET -> buildTerraformCheckStatusDefinition(def)
      [] type = FREE_TEXT_WIDGET    -> buildTerraformFreeTextDefinition(def)
      [] type = IFRAME_WIDGET       -> buildTerraformIframeDefinition(def)
      [] type = IMAGE_WIDGET        -> buildTerraformImageDefinition(def)
      [] type = LOG_STREAM_WIDGET   -> buildTerraformLogStreamDefinition(def)
      [] type = TIMESERIES_WIDGET   -> buildTerraformTimeseriesDefinition(def)

\* if v, ok := terraformWidget["layout"].(map[string]interface{}); ok && len(v) != 0
WidgetLayout(terraformWidget) ==
    Opt(MapSet(terraformWidget, "layout"), "Layout",
        buildDatadogWidgetLayout(terraformWidget["layout"]))

RECURSIVE buildDatadogWidgets(_)
RECURSIVE buildDatadogWidget(_)
RECURSIVE buildDatadogGroupDefinition(_)

\* a group decoder that converts the first child only: C15 does not hold
\* of it
buildDatadogGroupDefinitionFirstChild(terraformGroupDefinition) ==
    Bind(IF ListSet(terraformGroupDefinition, "widget")
         THEN buildDatadogWidgets(SubSeq(terraformGroupDefinition["widget"], 1, 1))
         ELSE Ok(<<>>),
         LAMBDA widgets :
            IF widgets.err # NoErr THEN Fail(widgets.err)
            ELSE Ok(("Type" :> GROUP_WIDGET)
                       @@ Opt(ListSet(terraformGroupDefinition, "widget"),
                              "Widgets", widgets.val)
                       @@ OptStr(terraformGroupDefinition, "layout_type", "LayoutType")
                       @@ OptStr(terraformGroupDefinition, "title", "Title")))

buildDatadogGroupDefinition(terraformGroupDefinition) ==
    Bind(IF ListSet(terraformGroupDefinition, "widget")
         THEN buildDatadogWidgets(terraformGroupDefinition["widget"])
         ELSE Ok(<<>>),
         LAMBDA widgets :
            IF widgets.err # NoErr THEN Fail(widgets.err)
            ELSE Ok(("Type" :> GROUP_WIDGET)
                       @@ Opt(ListSet(terraformGroupDefinition, "widget"),
                              "Widgets", widgets.val)
                       @@ OptStr(terraformGroupDefinition, "layout_type", "LayoutType")
                       @@ OptStr(terraformGroupDefinition, "title", "Title")))

\* the definition part of buildDatadogWidget, once the field is selected
buildDatadogWidgetDefinition(terraformWidget, field, layout) ==
    IF field = "none" THEN Fail(NoDefinitionError)
    ELSE IF terraformWidget[field][1] = NilElem THEN Ok(layout)
    ELSE IF field = "group_definition"
    THEN Bind(buildDatadogGroupDefinition(terraformWidget[field][1]),
              LAMBDA group :
                 IF group.err # NoErr THEN Fail(group.err)
                 ELSE Ok(layout @@ ("Definition" :> group.val)))
    ELSE Bind(buildDatadogDefinition(field, terraformWidget[field][1]),
              LAMBDA def :
                 IF Panicked(def) THEN Fail(PanicErr(def))
                 ELSE Ok(layout @@ ("Definition" :> def)))

buildDatadogWidget(terraformWidget) ==
    Bind(SelectedField(terraformWidget),
         LAMBDA field :
            Bind(WidgetLayout(terraformWidget),
                 LAMBDA layout :
                    buildDatadogWidgetDefinition(terraformWidget, field, layout)))

\* a buildDatadogWidgets that leaves out the widgets that fail to convert:
\* C10 does not hold of it
buildDatadogWidgetsSkipFailed(terraformWidgets) ==
    Bind([i \in 1..Len(terraformWidgets) |->
             IF terraformWidgets[i] = NilElem
             THEN Fail(PanicErr(PanicVal(NilMapPanic)))
             ELSE buildDatadogWidget(terraformWidgets[i])],
         LAMBDA results :
            Bind(SelectSeq(results, LAMBDA r : r.err = NoErr),
                 LAMBDA kept : Ok([i \in 1..Len(kept) |-> kept[i].val])))

buildDatadogWidgets(terraformWidgets) ==
    Bind([i \in 1..Len(terraformWidgets) |->
             IF terraformWidgets[i] = NilElem
             THEN Fail(PanicErr(PanicVal(NilMapPanic)))
             ELSE buildDatadogWidget(terraformWidgets[i])],
         LAMBDA results :
            IF FirstErr(results) # 0 THEN Fail(results[FirstErr(results)].err)
            ELSE Ok([i \in 1..Len(results) |-> results[i].val]))

RECURSIVE buildTerraformWidget(_)
RECURSIVE buildTerraformGroupDefinition(_)

\* the child widgets are converted with their errors dropped: a child that
\* fails to convert is appended as a nil map
buildTerraformGroupDefinition(datadogGroupDefinition) ==
    Bind([i \in 1..Len(IF "Widgets" \in DOMAIN datadogGroupDefinition
                       THEN datadogGroupDefinition["Widgets"] ELSE <<>>) |->
             buildTerraformWidget(datadogGroupDefinition["Widgets"][i])],
         LAMBDA results :
            IF \E i \in 1..Len(results) : IsPanic(results[i].err)
            THEN PanicVal(results[CHOOSE i \in 1..Len(results) :
                                     IsPanic(results[i].err)].err[2])
            ELSE ("widget" :> [i \in 1..Len(results) |->
                                  IF results[i].err # NoErr THEN NilElem
                                  ELSE results[i].val])
                    @@ OptPtr(datadogGroupDefinition, "LayoutType", "layout_type")
                    @@ OptPtr(datadogGroupDefinition, "Title", "title"))

\* a switch whose default case returns the widget without a definition
\* instead of an error: C13 does not hold of it
buildTerraformWidgetDefaultSkipped(datadogWidget, widgetType, layout) ==
    IF widgetType.err # NoErr THEN Fail(widgetType.err)
    ELSE IF \A i \in 1..Len(SupportedTypes) : SupportedTypes[i] # widgetType.val
    THEN Ok(layout)
    ELSE Bind(IF widgetType.val = GROUP_WIDGET
              THEN buildTerraformGroupDefinition(datadogWidget["Definition"])
              ELSE buildTerraformDefinition(widgetType.val, datadogWidget["Definition"]),
              LAMBDA def :
                 IF Panicked(def) THEN Fail(PanicErr(def))
                 ELSE Ok(layout @@ (DefinitionField(widgetType.val) :> <<def>>)))

\* the switch of buildTerraformWidget, once the type is known
buildTerraformWidgetDefinition(datadogWidget, widgetType, layout) ==
    IF widgetType.err # NoErr THEN Fail(widgetType.err)
    ELSE IF \A i \in 1..Len(SupportedTypes) : SupportedTypes[i] # widgetType.val
    THEN Fail(<<"Unsupported widget type: ", widgetType.val, " - ", TIMESERIES_WIDGET>>)
    ELSE Bind(IF widgetType.val = GROUP_WIDGET
              THEN buildTerraformGroupDefinition(datadogWidget["Definition"])
              ELSE buildTerraformDefinition(widgetType.val, datadogWidget["Definition"]),
              LAMBDA def :
                 IF Panicked(def) THEN Fail(PanicErr(def))
                 ELSE Ok(layout @@ (DefinitionField(widgetType.val) :> <<def>>)))

buildTerraformWidget(datadogWidget) ==
    Bind(GetWidgetType(datadogWidget),
         LAMBDA widgetType :
            buildTerraformWidgetDefinition(
                datadogWidget, widgetType,
                IF "Layout" \in DOMAIN datadogWidget
                THEN "layout" :> buildTerraformWidgetLayout(datadogWidget["Layout"])
                ELSE EmptyMap))

buildTerraformWidgets(datadogWidgets) ==
    Bind([i \in 1..Len(datadogWidgets) |-> buildTerraformWidget(datadogWidgets[i])],
         LAMBDA results :
            IF FirstErr(results) # 0 THEN Fail(results[FirstErr(results)].err)
            ELSE Ok([i \in 1..Len(results) |-> results[i].val]))

-----------------------------------------------------------------------------
(* The dashboard *)

\* d.Get("widget"): a block the state holds as nil reads back as a block with
\* every field at its zero value
GetBlocks(blocks) ==
    [i \in 1..Len(blocks) |-> IF blocks[i] = NilElem THEN EmptyMap ELSE blocks[i]]

GetWidgetBlocks(widgets) ==
    [i \in 1..Len(widgets) |->
        LET w == widgets[i] IN
        IF ListSet(w, "group_definition") /\ w["group_definition"][1] # NilElem
               /\ "widget" \in DOMAIN w["group_definition"][1]
        THEN [w EXCEPT !["group_definition"] =
                 <<[w["group_definition"][1] EXCEPT
                       !["widget"] = GetBlocks(w["group_definition"][1]["widget"])]>>]
        ELSE w]

\* a buildDatadogDashboard that sets is_read_only and description whatever
\* they hold: C29 does not hold of it
buildDatadogDashboardZeroValuesSet(rd) ==
    Bind(buildDatadogWidgets(GetWidgetBlocks(rd.widget)),
         LAMBDA datadogWidgets :
            IF datadogWidgets.err # NoErr THEN Fail(datadogWidgets.err)
            ELSE Ok(("Id" :> rd.id)
                       @@ Opt(rd.title # "", "Title", rd.title)
                       @@ Opt(rd.layout_type # "", "LayoutType", rd.layout_type)
                       @@ [Description |-> rd.description,
                           IsReadOnly |-> rd.is_read_only,
                           Widgets |-> datadogWidgets.val,
                           NotifyList |-> buildDatadogNotifyList(rd.notify_list),
                           TemplateVariables |->
                               buildDatadogTemplateVariables(rd.template_variable)]))

buildDatadogDashboard(rd) ==
    Bind(buildDatadogWidgets(GetWidgetBlocks(rd.widget)),
         LAMBDA datadogWidgets :
            IF datadogWidgets.err # NoErr THEN Fail(datadogWidgets.err)
            ELSE Ok(("Id" :> rd.id)
                       @@ Opt(rd.title # "", "Title", rd.title)
                       @@ Opt(rd.layout_type # "", "LayoutType", rd.layout_type)
                       @@ Opt(rd.description # "", "Description", rd.description)
                       @@ Opt(rd.is_read_only, "IsReadOnly", rd.is_read_only)
                       @@ [Widgets |-> datadogWidgets.val,
                           NotifyList |-> buildDatadogNotifyList(rd.notify_list),
                           TemplateVariables |->
                               buildDatadogTemplateVariables(rd.template_variable)]))

\* the getters of the API client's Board: the zero value for a nil field
GetTitle(board) == IF "Title" \in DOMAIN board THEN board["Title"] ELSE ""

GetLayoutType(board) == IF "LayoutType" \in DOMAIN board THEN board["LayoutType"] ELSE ""

GetDescription(board) ==
    IF "Description" \in DOMAIN board THEN board["Description"] ELSE ""

GetIsReadOnly(board) ==
    IF "IsReadOnly" \in DOMAIN board THEN board["IsReadOnly"] ELSE FALSE

-----------------------------------------------------------------------------
(* The Datadog API as the client shows it.  `fault` is what goes wrong with *)
(* one call for a reason other than the dashboard missing.                  *)

MaxBoards == 1

IdPool == <<"abc-123", "def-456", "ghi-789", "jkl-012">>

Faults == {"none", "fault"}

NotFoundError == <<"API error ", "404 Not Found", ": ", "Dashboard not found">>

FaultError == <<"API error ", "500 Internal Server Error", ": ", "try again">>

\* POST /v1/dashboard
CreateBoard(rem, board, fault, newId) ==
    IF fault # "none"
    THEN [err |-> FaultError, val |-> NilElem, remote |-> rem]
    ELSE LET stored == [board EXCEPT !["Id"] = newId]
         IN  [err |-> NoErr, val |-> stored, remote |-> (newId :> stored) @@ rem]

\* PUT /v1/dashboard/{id}
UpdateBoard(rem, board, fault) ==
    IF fault # "none" THEN [err |-> FaultError, remote |-> rem]
    ELSE IF board["Id"] \notin DOMAIN rem THEN [err |-> NotFoundError, remote |-> rem]
    ELSE [err |-> NoErr, remote |-> [rem EXCEPT ![board["Id"]] = board]]

\* GET /v1/dashboard/{id}
GetBoard(rem, id, fault) ==
    IF fault # "none" THEN Fail(FaultError)
    ELSE IF id \notin DOMAIN rem THEN Fail(NotFoundError)
    ELSE Ok(rem[id])

\* DELETE /v1/dashboard/{id}
DeleteBoard(rem, id, fault) ==
    IF fault # "none" THEN [err |-> FaultError, remote |-> rem]
    ELSE IF id \notin DOMAIN rem THEN [err |-> NotFoundError, remote |-> rem]
    ELSE [err |-> NoErr, remote |-> [i \in DOMAIN rem \ {id} |-> rem[i]]]

-----------------------------------------------------------------------------
(* The handlers.  Each is the function of the same name: from the           *)
(* ResourceData, the API's dashboards and what the API does with each call  *)
(* to the ResourceData and the dashboards afterwards, the value returned    *)
(* and the calls issued.                                                    *)

Returned(op, err) ==
    [op |-> op, err |-> err, panic |-> IsPanic(err), exists |-> FALSE,
     resources |-> <<>>]

\* a conversion failure that is not returned: C2 does not hold of it
ParseFailureIgnored(err) == NoErr

ParseFailure(err) ==
    IF IsPanic(err) THEN err
    ELSE Errorf("Failed to parse resource configuration: ", err)

\* a SetId that sets nothing: C1 does not hold of it
SetIdSkipped(rd, id) == rd

\* d.SetId(*dashboard.Id)
SetId(rd, id) == [rd EXCEPT !.id = id]

\* the call Create issues, with the id the API answered ("" when it failed)
CreateCall(dashboard, created) ==
    [call |-> "CreateBoard", board |-> dashboard, err |-> created.err,
     id |-> IF created.err = NoErr THEN created.val["Id"] ELSE ""]

\* Create once the configuration is converted
CreateDashboard(rd, rem, dashboard, created) ==
    IF created.err # NoErr
    THEN [d |-> rd, remote |-> rem, calls |-> <<CreateCall(dashboard, created)>>,
          ret |-> Returned("Create",
                     Errorf("Failed to create dashboard using Datadog API: ",
                            created.err))]
    ELSE [d |-> SetId(rd, created.val["Id"]), remote |-> created.remote,
          calls |-> <<CreateCall(dashboard, created)>>,
          ret |-> Returned("Create", NoErr)]

resourceDatadogDashboardCreate(rd, rem, fault, newId) ==
    Bind(buildDatadogDashboard(rd),
         LAMBDA dashboard :
            IF dashboard.err # NoErr
            THEN [d |-> rd, remote |-> rem, calls |-> <<>>,
                  ret |-> Returned("Create", ParseFailure(dashboard.err))]
            ELSE Bind(CreateBoard(rem, dashboard.val, fault, newId),
                      LAMBDA created :
                         CreateDashboard(rd, rem, dashboard.val, created)))

\* the four d.Set calls Read makes before it converts the widgets
SetMetadata(rd, dashboard) ==
    [rd EXCEPT !.title = GetTitle(dashboard),
               !.layout_type = GetLayoutType(dashboard),
               !.description = GetDescription(dashboard),
               !.is_read_only = GetIsReadOnly(dashboard)]

\* Read without d.Set("notify_list", ...): C4 does not hold of it
SetListsWithoutNotifyList(rd, terraformWidgets, dashboard) ==
    [rd EXCEPT !.widget = terraformWidgets,
               !.template_variable =
                   buildTerraformTemplateVariables(dashboard["TemplateVariables"])]

\* the three d.Set calls Read makes after it
SetLists(rd, terraformWidgets, dashboard) ==
    [rd EXCEPT !.widget = terraformWidgets,
               !.template_variable =
                   buildTerraformTemplateVariables(dashboard["TemplateVariables"]),
               !.notify_list = buildTerraformNotifyList(dashboard["NotifyList"])]

GetCall(id, fetched) == [call |-> "GetBoard", id |-> id, err |-> fetched.err]

\* a Read that sets nothing unless the widgets convert: C28 does not hold of it
ReadDashboardAtomic(rd, rem, call, dashboard, terraformWidgets) ==
    IF terraformWidgets.err # NoErr
    THEN [d |-> rd, remote |-> rem, calls |-> <<call>>,
          ret |-> Returned("Read", terraformWidgets.err)]
    ELSE [d |-> SetLists(SetMetadata(rd, dashboard), terraformWidgets.val, dashboard),
          remote |-> rem, calls |-> <<call>>, ret |-> Returned("Read", NoErr)]

\* Read once the dashboard is fetched
ReadDashboard(rd, rem, call, dashboard, terraformWidgets) ==
    IF terraformWidgets.err # NoErr
    THEN [d |-> SetMetadata(rd, dashboard), remote |-> rem, calls |-> <<call>>,
          ret |-> Returned("Read", terraformWidgets.err)]
    ELSE [d |-> SetLists(SetMetadata(rd, dashboard), terraformWidgets.val, dashboard),
          remote |-> rem, calls |-> <<call>>, ret |-> Returned("Read", NoErr)]

resourceDatadogDashboardRead(rd, rem, fault) ==
    Bind(GetBoard(rem, rd.id, fault),
         LAMBDA fetched :
            IF fetched.err # NoErr
            THEN [d |-> rd, remote |-> rem, calls |-> <<GetCall(rd.id, fetched)>>,
                  ret |-> Returned("Read", fetched.err)]
            ELSE Bind(buildTerraformWidgets(fetched.val["Widgets"]),
                      LAMBDA terraformWidgets :
                         ReadDashboard(rd, rem, GetCall(rd.id, fetched),
                                       fetched.val, terraformWidgets)))

UpdateCall(dashboard, updated) ==
    [call |-> "UpdateBoard", board |-> dashboard, err |-> updated.err]

\* an Update that returns after UpdateBoard with the Read's result but
\* without its fetch: C5 does not hold of it
UpdateWithoutRead(call, read) ==
    [d |-> read.d, remote |-> read.remote, calls |-> <<call>>,
     ret |-> [read.ret EXCEPT !.op = "Update"]]

\* return resourceDatadogDashboardRead(d, meta)
UpdateThenRead(call, read) ==
    [d |-> read.d, remote |-> read.remote, calls |-> <<call>> \o read.calls,
     ret |-> [read.ret EXCEPT !.op = "Update"]]

\* an Update that runs Read whether or not UpdateBoard failed, and returns
\* UpdateBoard's error after it: C6 does not hold of it
UpdateAlwaysReads(rd, rem, dashboard, updated, readFault) ==
    Bind(resourceDatadogDashboardRead(rd, updated.remote, readFault),
         LAMBDA read :
            IF updated.err # NoErr
            THEN [d |-> read.d, remote |-> read.remote,
                  calls |-> <<UpdateCall(dashboard, updated)>> \o read.calls,
                  ret |-> Returned("Update",
                             Errorf("Failed to update dashboard using Datadog API: ",
                                    updated.err))]
            ELSE UpdateThenRead(UpdateCall(dashboard, updated), read))

\* Update once the configuration is converted
UpdateDashboard(rd, rem, dashboard, updated, readFault) ==
    IF updated.err # NoErr
    THEN [d |-> rd, remote |-> rem, calls |-> <<UpdateCall(dashboard, updated)>>,
          ret |-> Returned("Update",
                     Errorf("Failed to update dashboard using Datadog API: ",
                            updated.err))]
    ELSE Bind(resourceDatadogDashboardRead(rd, updated.remote, readFault),
              LAMBDA read : UpdateThenRead(UpdateCall(dashboard, updated), read))

resourceDatadogDashboardUpdate(rd, rem, fault, readFault) ==
    Bind(buildDatadogDashboard(rd),
         LAMBDA dashboard :
            IF dashboard.err # NoErr
            THEN [d |-> rd, remote |-> rem, calls |-> <<>>,
                  ret |-> Returned("Update", ParseFailure(dashboard.err))]
            ELSE Bind(UpdateBoard(rem, dashboard.val, fault),
                      LAMBDA updated :
                         UpdateDashboard(rd, rem, dashboard.val, updated, readFault)))

\* a Delete that returns nil whatever DeleteBoard answered: C7 does not hold
\* of it
DeleteErrorDropped(rd, removed) ==
    [d |-> rd, remote |-> removed.remote,
     calls |-> <<[call |-> "DeleteBoard", id |-> rd.id, err |-> removed.err]>>,
     ret |-> Returned("Delete", NoErr)]

\* a Delete that calls DeleteBoard a second time when the first call failed:
\* C21 does not hold of it
DeleteRetried(rd, removed) ==
    [d |-> rd, remote |-> removed.remote,
     calls |-> IF removed.err # NoErr
               THEN << [call |-> "DeleteBoard", id |-> rd.id, err |-> removed.err],
                       [call |-> "DeleteBoard", id |-> rd.id, err |-> removed.err] >>
               ELSE << [call |-> "DeleteBoard", id |-> rd.id, err |-> removed.err] >>,
     ret |-> Returned("Delete", removed.err)]

\* if err := client.DeleteBoard(d.Id()); err != nil { return err }; return nil
DeleteOutcome(rd, removed) ==
    [d |-> rd, remote |-> removed.remote,
     calls |-> <<[call |-> "DeleteBoard", id |-> rd.id, err |-> removed.err]>>,
     ret |-> Returned("Delete", removed.err)]

resourceDatadogDashboardDelete(rd, rem, fault) ==
    Bind(DeleteBoard(rem, rd.id, fault), LAMBDA removed : DeleteOutcome(rd, removed))

\* an Import that returns the resource whatever Read returned: C9 does not
\* hold of it
ImportAlwaysReturnsResource(read) ==
    [d |-> read.d, remote |-> read.remote, calls |-> read.calls,
     ret |-> [read.ret EXCEPT !.op = "Import", !.resources = <<read.d>>]]

\* return []*schema.ResourceData{d}, nil  /  return nil, err
ImportOutcome(read) ==
    [d |-> read.d, remote |-> read.remote, calls |-> read.calls,
     ret |-> [read.ret EXCEPT
                 !.op = "Import",
                 !.resources = IF read.ret.err # NoErr THEN <<>> ELSE <<read.d>>]]

resourceDatadogDashboardImport(rd, rem, fault) ==
    Bind(resourceDatadogDashboardRead(rd, rem, fault), LAMBDA read : ImportOutcome(read))

\* an Exists that takes every error for not-found: C8 does not hold of it
ExistsEveryErrorNotFound(err) ==
    IF err # NoErr THEN [Returned("Exists", NoErr) EXCEPT !.exists = FALSE]
    ELSE [Returned("Exists", NoErr) EXCEPT !.exists = TRUE]

\* the three returns of Exists
ExistsOutcome(err) ==
    IF err # NoErr
    THEN IF Contains(err, "404 Not Found")
         THEN [Returned("Exists", NoErr) EXCEPT !.exists = FALSE]
         ELSE [Returned("Exists", err) EXCEPT !.exists = FALSE]
    ELSE [Returned("Exists", NoErr) EXCEPT !.exists = TRUE]

resourceDatadogDashboardExists(rd, rem, fault) ==
    Bind(GetBoard(rem, rd.id, fault),
         LAMBDA fetched :
            [d |-> rd, remote |-> rem, calls |-> <<GetCall(rd.id, fetched)>>,
             ret |-> ExistsOutcome(fetched.err)])

-----------------------------------------------------------------------------
(* Configurations, after the acceptance test's datadogDashboardConfig.  A   *)
(* block read from the configuration has an empty list for every            *)
(* definition the block leaves out and "" for every string it leaves out.   *)

NoteWidget ==
    [layout |-> [x |-> "36", y |-> "25", width |-> "140", height |-> "500"],
     group_definition |-> <<>>,
     note_definition |->
         <<[content |-> "note text", background_color |-> "pink", font_size |-> "14",
            text_align |-> "center", show_tick |-> TRUE, tick_edge |-> "left",
            tick_pos |-> "50%"]>>,
     alert_graph_definition |-> <<>>]

InnerNoteWidget ==
    [note_definition |->
         <<[content |-> "cluster note widget", background_color |-> "yellow",
            font_size |-> "", text_align |-> "", show_tick |-> FALSE,
            tick_edge |-> "", tick_pos |-> ""]>>]

AlertGraphWidget ==
    [note_definition |-> <<>>,
     alert_graph_definition |->
         <<[alert_id |-> "123", viz_type |-> "toplist", title |-> "Alert Graph",
            title_size |-> "16", title_align |-> "right",
            time |-> [live_span |-> "1h"]]>>]

GroupWidget ==
    [group_definition |->
         <<[layout_type |-> "ordered", title |-> "Group Widget",
            widget |-> <<InnerNoteWidget, AlertGraphWidget>>]>>,
     note_definition |-> <<>>]

\* a widget block that populates no definition
NoDefinitionWidget ==
    [layout |-> [x |-> "36", y |-> "25", width |-> "140", height |-> "500"],
     group_definition |-> <<>>, note_definition |-> <<>>,
     alert_graph_definition |-> <<>>, timeseries_definition |-> <<>>]

\* a group whose second child populates no definition
GroupNoDefinitionWidget ==
    [group_definition |->
         <<[layout_type |-> "ordered", title |-> "Group Widget",
            widget |-> <<InnerNoteWidget, NoDefinitionWidget>>]>>]

TemplateVariables ==
    <<[name |-> "var_1", prefix |-> "host", default |-> "aws"],
      [name |-> "var_2", prefix |-> "service_name", default |-> "autoscaling"]>>

OrderedConfig ==
    [title |-> "Acceptance Test Ordered Dashboard",
     description |-> "Created using the Datadog provider in Terraform",
     layout_type |-> "ordered", is_read_only |-> TRUE,
     widget |-> <<AlertGraphWidget, GroupWidget>>,
     template_variable |-> TemplateVariables, notify_list |-> <<>>]

FreeConfig ==
    [title |-> "Acceptance Test Dashboard", description |-> "",
     layout_type |-> "free", is_read_only |-> FALSE,
     widget |-> <<NoteWidget>>,
     template_variable |-> <<>>, notify_list |-> <<"user@example.com">>]

NoDefinitionConfig ==
    [FreeConfig EXCEPT !.widget = <<NoteWidget, NoDefinitionWidget>>]

GroupNoDefinitionConfig ==
    [OrderedConfig EXCEPT !.widget = <<AlertGraphWidget, GroupNoDefinitionWidget>>]

Configs == {OrderedConfig, FreeConfig, NoDefinitionConfig, GroupNoDefinitionConfig}

(* Dashboards as somebody else leaves them in the API *)

EditedBoard ==
    [Title |-> "Edited in the UI", LayoutType |-> "ordered",
     Widgets |-> <<[Definition |-> [Type |-> NOTE_WIDGET, Content |-> "edited"]],
                   [Layout |-> [X |-> 25, Y |-> 360],
                    Definition |-> [Type |-> IFRAME_WIDGET, Url |-> "https://example.com"]]>>,
     NotifyList |-> <<"ops@example.com">>,
     TemplateVariables |-> <<[Name |-> "var_3"]>>]

\* a widget of a type the API client knows and the provider does not convert
EventStreamBoard ==
    [Title |-> "Events", LayoutType |-> "ordered", Description |-> "event stream",
     Widgets |-> <<[Definition |-> [Type |-> EVENT_STREAM_WIDGET, Query |-> "*"]]>>,
     NotifyList |-> <<>>, TemplateVariables |-> <<>>]

\* a group that holds a note and a widget of a type the provider does not
\* convert, after a note at the top level
GroupEventStreamBoard ==
    [Title |-> "Grouped events", LayoutType |-> "ordered",
     Widgets |-> <<[Definition |-> [Type |-> NOTE_WIDGET, Content |-> "first"]],
                   [Definition |->
                       [Type |-> GROUP_WIDGET, LayoutType |-> "ordered",
                        Title |-> "Group Widget",
                        Widgets |-> <<[Definition |-> [Type |-> NOTE_WIDGET,
                                                       Content |-> "in the group"]],
                                      [Definition |-> [Type |-> EVENT_STREAM_WIDGET,
                                                       Query |-> "*"]]>>]]>>,
     NotifyList |-> <<>>, TemplateVariables |-> <<>>]

RemoteBoards == {EditedBoard, EventStreamBoard, GroupEventStreamBoard}

-----------------------------------------------------------------------------
(* The state machine: the framework drives the handlers one at a time *)

\* a ResourceData with nothing set
BlankResource ==
    [id |-> "", title |-> "", description |-> "", layout_type |-> "",
     is_read_only |-> FALSE, widget |-> <<>>, template_variable |-> <<>>,
     notify_list |-> <<>>]

Idle == Returned("none", NoErr)

\* no conversion applied on its own
NoConversion == [fn |-> "none", arg |-> NilElem, res |-> NilElem]

\* the ids an import may name: those the API can assign, and one it never does
ImportIds == {IdPool[i] : i \in 1..MaxBoards} \cup {"no-such-id"}

Init ==
    /\ d = BlankResource
    /\ remote = EmptyMap
    /\ nextId = 0
    /\ ret = Idle
    /\ calls = <<>>
    /\ pre = BlankResource
    /\ deleted = {}
    /\ conv = NoConversion

\* the outcome of a handler becomes the next state
Apply(rd, out) ==
    /\ pre' = rd
    /\ d' = out.d
    /\ remote' = out.remote
    /\ ret' = out.ret
    /\ calls' = out.calls

\* the framework reads the configuration into the ResourceData
Plan ==
    \E cfg \in Configs :
        /\ d' = cfg @@ [id |-> d.id]
        /\ d' # d
        /\ pre' = d'
        /\ ret' = Idle
        /\ calls' = <<>>
        /\ UNCHANGED <<conv, remote, nextId, deleted>>

\* the framework drops the resource from its state
Forget ==
    /\ d.id # ""
    /\ d' = BlankResource
    /\ pre' = d'
    /\ ret' = Idle
    /\ calls' = <<>>
    /\ UNCHANGED <<conv, remote, nextId, deleted>>

\* somebody changes a dashboard in the API behind the provider's back
RemoteEdit ==
    \E id \in DOMAIN remote, board \in RemoteBoards :
        /\ remote' = [remote EXCEPT ![id] = board @@ [Id |-> id]]
        /\ remote' # remote
        /\ pre' = d
        /\ ret' = Idle
        /\ calls' = <<>>
        /\ UNCHANGED <<conv, d, nextId, deleted>>

\* title, layout_type and widget are Required: the framework runs Create and
\* Update on a ResourceData that holds a configuration
Create ==
    \E fault \in Faults :
        /\ d.id = ""
        /\ d.title # ""
        /\ nextId < MaxBoards
        /\ \E out \in {resourceDatadogDashboardCreate(d, remote, fault,
                                                       IdPool[nextId + 1])} :
               /\ Apply(d, out)
               /\ nextId' = IF out.remote # remote THEN nextId + 1 ELSE nextId
        /\ UNCHANGED <<conv, deleted>>

Read ==
    \E fault \in Faults :
        /\ d.id # ""
        /\ \E out \in {resourceDatadogDashboardRead(d, remote, fault)} : Apply(d, out)
        /\ UNCHANGED <<conv, nextId, deleted>>

Update ==
    \E fault \in Faults, readFault \in Faults :
        /\ d.id # ""
        /\ d.title # ""
        /\ \E out \in {resourceDatadogDashboardUpdate(d, remote, fault, readFault)} : Apply(d, out)
        /\ UNCHANGED <<conv, nextId, deleted>>

Delete ==
    \E fault \in Faults :
        /\ d.id # ""
        /\ \E out \in {resourceDatadogDashboardDelete(d, remote, fault)} :
               /\ Apply(d, out)
               /\ deleted' = IF out.ret.err = NoErr THEN deleted \cup {d.id} ELSE deleted
        /\ UNCHANGED <<conv, nextId>>

Exists ==
    \E fault \in Faults :
        /\ d.id # ""
        /\ \E out \in {resourceDatadogDashboardExists(d, remote, fault)} : Apply(d, out)
        /\ UNCHANGED <<conv, nextId, deleted>>

\* the framework makes a ResourceData that holds the id alone and imports it;
\* it keeps the resource Import returns, and what it held when there is none
Import ==
    \E id \in ImportIds, fault \in Faults :
        /\ \E out \in {resourceDatadogDashboardImport([BlankResource EXCEPT !.id = id],
                                                       remote, fault)} :
               /\ pre' = [BlankResource EXCEPT !.id = id]
               /\ d' = IF out.ret.resources = <<>> THEN d ELSE out.ret.resources[1]
               /\ remote' = out.remote
               /\ ret' = out.ret
               /\ calls' = out.calls
        /\ UNCHANGED <<conv, nextId, deleted>>

Next ==
    \/ Plan
    \/ Forget
    \/ RemoteEdit
    \/ Create
    \/ Read
    \/ Update
    \/ Delete
    \/ Exists
    \/ Import

Spec == Init /\ [][Next]_vars

-----------------------------------------------------------------------------
(* Properties of the handlers.  In each state ret is what the last handler *)
(* returned, calls the API calls it issued in order, pre the ResourceData  *)
(* it was given and d the ResourceData it left.                            *)

\* the last handler was Create and its CreateBoard call succeeded
CreateSucceeded ==
    /\ ret.op = "Create"
    /\ Len(calls) = 1
    /\ calls[1].call = "CreateBoard"
    /\ calls[1].err = NoErr

\* C1: after Create returns, the resource's id is set if and only if the
\* remote create succeeded, and then it is the id the API returned; when the
\* conversion or the remote create fails, Create returns an error and the id
\* stays absent.
C1_CreateSetsIdIffCreated ==
    ret.op = "Create" =>
        /\ pre.id = ""
        /\ (d.id # "") <=> CreateSucceeded
        /\ CreateSucceeded =>
              /\ ret.err = NoErr
              /\ d.id = calls[1].id
              /\ d.id \in DOMAIN remote
              /\ remote[d.id]["Id"] = d.id
        /\ ~CreateSucceeded =>
              /\ ret.err # NoErr
              /\ d.id = ""

\* a Create that succeeded and set the id the API assigned
C1_Witness ==
    /\ CreateSucceeded
    /\ d.id = IdPool[1]
    /\ ret.err = NoErr

\* C2: when buildDatadogDashboard fails on the configuration, Create and
\* Update return an error and issue no remote call.
C2_ParseFailureIssuesNoCall ==
    (ret.op \in {"Create", "Update"} /\ buildDatadogDashboard(pre).err # NoErr) =>
        /\ ret.err # NoErr
        /\ calls = <<>>
        /\ d = pre

\* an Update of a configuration with a widget that has no definition
C2_Witness ==
    /\ ret.op = "Update"
    /\ buildDatadogDashboard(pre).err = NoDefinitionError
    /\ Contains(ret.err, "Failed to parse resource configuration: ")
    /\ calls = <<>>

\* C3, as the specification states it: when the fetch of Read reports
\* not-found, Read reports the resource absent (clears its id) and returns no
\* error.  The code returns the fetch error: this does not hold.
C3_ReadNotFoundIsAbsent ==
    (ret.op = "Read" /\ Contains(calls[1].err, "404 Not Found")) =>
        /\ ret.err = NoErr
        /\ d.id = ""

\* what the code does instead: Read returns every fetch error as it is, the
\* not-found one included, and leaves the ResourceData as it was
C3_ReadReturnsFetchError ==
    (ret.op = "Read" /\ calls[1].err # NoErr) =>
        /\ ret.err = calls[1].err
        /\ d = pre

\* a Read of a dashboard that is gone from the API
C3_Witness ==
    /\ ret.op = "Read"
    /\ calls[1].err = NotFoundError
    /\ ret.err = NotFoundError
    /\ d.id # ""

\* C4: after a Read that returns no error, title, layout_type, description,
\* is_read_only, widget, template_variable and notify_list are the values
\* converted from the dashboard fetched from the API, whatever they were before.
C4_ReadOverwritesEveryAttribute ==
    (ret.op = "Read" /\ ret.err = NoErr) =>
        /\ d.id = pre.id
        /\ d.id \in DOMAIN remote
        /\ d.title = GetTitle(remote[d.id])
        /\ d.layout_type = GetLayoutType(remote[d.id])
        /\ d.description = GetDescription(remote[d.id])
        /\ d.is_read_only = GetIsReadOnly(remote[d.id])
        /\ d.widget = buildTerraformWidgets(remote[d.id]["Widgets"]).val
        /\ d.template_variable =
              buildTerraformTemplateVariables(remote[d.id]["TemplateVariables"])
        /\ d.notify_list = buildTerraformNotifyList(remote[d.id]["NotifyList"])

\* a Read that changed every one of the seven attributes
C4_Witness ==
    /\ ret.op = "Read"
    /\ ret.err = NoErr
    /\ d.title # pre.title
    /\ d.layout_type # pre.layout_type
    /\ d.description # pre.description
    /\ d.is_read_only # pre.is_read_only
    /\ d.widget # pre.widget
    /\ d.template_variable # pre.template_variable
    /\ d.notify_list # pre.notify_list

\* the last handler was Update and its UpdateBoard call succeeded
UpdateSucceeded ==
    /\ ret.op = "Update"
    /\ calls # <<>>
    /\ calls[1].call = "UpdateBoard"
    /\ calls[1].err = NoErr

\* C5: an Update whose remote update succeeds has sent the dashboard
\* assembled from the configuration, carrying the existing id, and then run
\* Read: the id is unchanged and the local state and the value returned are
\* what Read produces from the remote dashboard.
C5_UpdateSendsThenReads ==
    UpdateSucceeded =>
        /\ calls[1].board = buildDatadogDashboard(pre).val
        /\ calls[1].board["Id"] = pre.id
        /\ remote[pre.id] = calls[1].board
        /\ Len(calls) = 2
        /\ calls[2].call = "GetBoard"
        /\ calls[2].id = pre.id
        /\ d.id = pre.id
        /\ \E readFault \in Faults :
              /\ d = resourceDatadogDashboardRead(pre, remote, readFault).d
              /\ ret.err = resourceDatadogDashboardRead(pre, remote, readFault).ret.err
              /\ calls[2].err =
                    resourceDatadogDashboardRead(pre, remote, readFault).calls[1].err

\* an Update that returned no error and left the attributes as Read converts
\* them, other than the configuration had them
C5_Witness ==
    /\ UpdateSucceeded
    /\ ret.err = NoErr
    /\ Len(calls) = 2
    /\ d # pre
    /\ d.title = pre.title
    /\ d.title = GetTitle(remote[d.id])

\* C6: when the remote update fails, Update returns an error, does not run
\* Read, and leaves every local attribute and the id unchanged.
C6_FailedUpdateChangesNothing ==
    (ret.op = "Update" /\ calls # <<>> /\ calls[1].err # NoErr) =>
        /\ calls[1].call = "UpdateBoard"
        /\ Len(calls) = 1
        /\ ret.err = Errorf("Failed to update dashboard using Datadog API: ",
                            calls[1].err)
        /\ d = pre

\* an Update, of a configuration that differs from the remote dashboard,
\* whose UpdateBoard failed
C6_Witness ==
    /\ ret.op = "Update"
    /\ Len(calls) = 1
    /\ calls[1].err = FaultError
    /\ ret.err # NoErr
    /\ pre.id \in DOMAIN remote
    /\ pre.title # GetTitle(remote[pre.id])

\* C7: Delete issues the remote delete for the resource's id.  When it
\* succeeds the dashboard is gone from the API and stays gone, so every later
\* Exists for that id returns false, and without error whenever the API
\* answers the fetch; when it fails Delete returns the error and the
\* dashboards in the API are as they were.
C7_DeleteRemovesRemoteDashboard ==
    /\ [](/\ ret.op = "Delete" =>
                /\ calls = <<[call |-> "DeleteBoard", id |-> pre.id, err |-> ret.err]>>
                /\ d = pre
          /\ (ret.op = "Delete" /\ ret.err = NoErr) =>
                /\ pre.id \notin DOMAIN remote
                /\ pre.id \in deleted
          /\ \A id \in deleted :
                /\ id \notin DOMAIN remote
                /\ resourceDatadogDashboardExists(SetId(d, id), remote, "none").ret
                      = [Returned("Exists", NoErr) EXCEPT !.exists = FALSE]
          /\ (ret.op = "Exists" /\ pre.id \in deleted) =>
                /\ ~ret.exists
                /\ calls[1].err \in {NotFoundError, FaultError}
                /\ calls[1].err = NotFoundError => ret.err = NoErr)
    /\ [][(ret'.op = "Delete" /\ ret'.err # NoErr) => remote' = remote]_vars

\* an Exists, after a Delete that succeeded, that returned false and no error
C7_Witness ==
    /\ ret.op = "Exists"
    /\ pre.id \in deleted
    /\ ~ret.exists
    /\ ret.err = NoErr

\* C8: Exists returns (true, nil) when the fetch succeeds, (false, nil) when
\* the fetch reports not-found and (false, err) on every other fetch error;
\* exactly one of the three happens.
C8_ExistsThreeOutcomes ==
    ret.op = "Exists" =>
        /\ Len(calls) = 1
        /\ calls[1].call = "GetBoard"
        /\ calls[1].id = pre.id
        /\ d = pre
        /\ \/ /\ calls[1].err = NoErr
              /\ pre.id \in DOMAIN remote
              /\ ret.exists
              /\ ret.err = NoErr
           \/ /\ calls[1].err # NoErr
              /\ Contains(calls[1].err, "404 Not Found")
              /\ pre.id \notin DOMAIN remote
              /\ ~ret.exists
              /\ ret.err = NoErr
           \/ /\ calls[1].err # NoErr
              /\ ~Contains(calls[1].err, "404 Not Found")
              /\ ~ret.exists
              /\ ret.err = calls[1].err
        /\ ret.exists => ret.err = NoErr

\* an Exists whose fetch failed with an error other than not-found
C8_Witness ==
    /\ ret.op = "Exists"
    /\ calls[1].err = FaultError
    /\ ~ret.exists
    /\ ret.err = FaultError

\* C9: Import runs Read for the id it is given; when Read succeeds it returns
\* exactly one resource, with that id and the attributes Read set; when Read
\* fails it returns Read's error and no resource.
C9_ImportReturnsWhatReadProduces ==
    ret.op = "Import" =>
        /\ pre = [BlankResource EXCEPT !.id = pre.id]
        /\ Len(calls) = 1
        /\ calls[1].call = "GetBoard"
        /\ calls[1].id = pre.id
        /\ ret.err = NoErr =>
              /\ Len(ret.resources) = 1
              /\ ret.resources[1].id = pre.id
              /\ ret.resources[1] = resourceDatadogDashboardRead(pre, remote, "none").d
              /\ resourceDatadogDashboardRead(pre, remote, "none").ret.err = NoErr
              /\ d = ret.resources[1]
        /\ ret.err # NoErr =>
              /\ ret.resources = <<>>
              /\ \E fault \in Faults :
                    /\ ret.err = resourceDatadogDashboardRead(pre, remote, fault).ret.err
                    /\ calls = resourceDatadogDashboardRead(pre, remote, fault).calls

\* an Import that returned one resource with the attributes of the dashboard
C9_Witness ==
    /\ ret.op = "Import"
    /\ ret.err = NoErr
    /\ Len(ret.resources) = 1
    /\ ret.resources[1].id = IdPool[1]
    /\ ret.resources[1].title # ""
    /\ ret.resources[1].widget # <<>>

\* C10: a widget block in which no definition is populated makes
\* buildDatadogWidget fail with the no-definition error, and the failure ends
\* the conversion at whatever depth the block is: buildDatadogWidgets,
\* buildDatadogGroupDefinition, the buildDatadogWidget of the group and
\* buildDatadogDashboard each return that error and no list.
C10_NoDefinitionAbortsConversion ==
    LET widgets == GetWidgetBlocks(pre.widget)
        NoDefinition(w) ==
            \A i \in 1..Len(SupportedTypes) :
                ~ListSet(w, DefinitionField(SupportedTypes[i]))
        Children(w) ==
            IF ListSet(w, "group_definition")
                  /\ ListSet(w["group_definition"][1], "widget")
            THEN w["group_definition"][1]["widget"]
            ELSE <<>>
        NoDefinitionFailure == [err |-> NoDefinitionError, val |-> NilElem]
    IN  ret.op \in {"Create", "Update"} =>
            /\ \A i \in 1..Len(widgets) :
                  /\ NoDefinition(widgets[i]) =>
                        buildDatadogWidget(widgets[i]) = NoDefinitionFailure
                  /\ (\E j \in 1..Len(Children(widgets[i])) :
                         NoDefinition(Children(widgets[i])[j])) =>
                        /\ buildDatadogWidgets(Children(widgets[i])) = NoDefinitionFailure
                        /\ buildDatadogGroupDefinition(widgets[i]["group_definition"][1])
                              = NoDefinitionFailure
                        /\ buildDatadogWidget(widgets[i]) = NoDefinitionFailure
            /\ (\E i \in 1..Len(widgets) :
                   \/ NoDefinition(widgets[i])
                   \/ \E j \in 1..Len(Children(widgets[i])) :
                         NoDefinition(Children(widgets[i])[j])) =>
                  /\ buildDatadogWidgets(widgets) = NoDefinitionFailure
                  /\ buildDatadogDashboard(pre) = NoDefinitionFailure
                  /\ ret.err = Errorf("Failed to parse resource configuration: ",
                                      NoDefinitionError)
                  /\ calls = <<>>

\* a Create of a configuration whose group holds a child without a
\* definition, after a widget that converts
C10_Witness ==
    /\ ret.op = "Create"
    /\ Len(pre.widget) = 2
    /\ pre.widget[2] = GroupNoDefinitionWidget
    /\ buildDatadogWidget(pre.widget[1]).err = NoErr
    /\ buildDatadogDashboard(pre).err = NoDefinitionError
    /\ ret.err # NoErr

-----------------------------------------------------------------------------
(* The conversions on their own: each action applies one conversion        *)
(* function to an input drawn from a bounded set and records the function, *)
(* its argument and its result in conv.                                    *)

\* how many definition fields of one widget block are populated at most
MaxKinds == 2

\* a populated definition block of each kind, as the configuration gives it
SampleDefinition(type) ==
    CASE type = GROUP_WIDGET ->
           [layout_type |-> "ordered", title |-> "Group Widget",
            widget |-> <<InnerNoteWidget, AlertGraphWidget>>]
      [] type = NOTE_WIDGET ->
           [content |-> "note text", background_color |-> "pink", font_size |-> "14",
            text_align |-> "center", show_tick |-> TRUE, tick_edge |-> "left",
            tick_pos |-> "50%"]
      [] type = ALERT_GRAPH_WIDGET ->
           [alert_id |-> "895605", viz_type |-> "timeseries", title |-> "Widget Title",
            title_size |-> "16", title_align |-> "left", time |-> [live_span |-> "1h"]]
      [] type = ALERT_VALUE_WIDGET ->
           [alert_id |-> "895605", precision |-> 3, unit |-> "b",
            text_align |-> "center", title |-> "Widget Title", title_size |-> "16",
            title_align |-> "left"]
      [] type = CHECK_STATUS_WIDGET ->
           [check |-> "aws.ecs.agent_connected", grouping |-> "cluster",
            group_by |-> <<"account", "cluster">>, tags |-> <<"account:demo">>,
            title |-> "Widget Title", title_size |-> "16", title_align |-> "left",
            time |-> [live_span |-> "1h"]]
      [] type = FREE_TEXT_WIDGET ->
           [text |-> "free text", color |-> "#d00", font_size |-> "88",
            text_align |-> "left"]
      [] type = IFRAME_WIDGET -> [url |-> "https://example.com"]
      [] type = IMAGE_WIDGET ->
           [url |-> "https://example.com/logo.png", sizing |-> "fit",
            margin |-> "small"]
      [] type = LOG_STREAM_WIDGET ->
           [logset |-> "19", query |-> "error", columns |-> <<"core_host">>,
            title |-> "Widget Title", title_size |-> "16", title_align |-> "left",
            time |-> [live_span |-> "1h"]]
      [] type = TIMESERIES_WIDGET ->
           [request |-> <<[q |-> "avg:system.cpu.user{app:general} by {env}",
                           display_type |-> "line"]>>,
            title |-> "Widget Title", title_size |-> "16", title_align |-> "left",
            time |-> [live_span |-> "1h"]]

\* the definition fields of a widget block
DefinitionFields == {DefinitionField(SupportedTypes[i]) : i \in 1..Len(SupportedTypes)}

\* the kind a definition field holds
FieldType(field) ==
    SupportedTypes[CHOOSE i \in 1..Len(SupportedTypes) :
                      DefinitionField(SupportedTypes[i]) = field]

\* the widget block that populates the definition fields in fields and leaves
\* the others empty
WidgetBlock(fields) ==
    [f \in DefinitionFields |->
        IF f \in fields THEN <<SampleDefinition(FieldType(f))>> ELSE <<>>]

\* the widget blocks with at most MaxKinds definition fields populated
WidgetBlocks ==
    {WidgetBlock(fields) :
        fields \in {fs \in SUBSET DefinitionFields : Cardinality(fs) <= MaxKinds}}

CodecInit ==
    /\ d = BlankResource
    /\ remote = EmptyMap
    /\ nextId = 0
    /\ ret = Idle
    /\ calls = <<>>
    /\ pre = BlankResource
    /\ deleted = {}
    /\ conv = NoConversion

\* fn applied to arg gave res: a run applies one conversion to one input
Converted(fn, arg, res) ==
    /\ conv = NoConversion
    /\ conv' = [fn |-> fn, arg |-> arg, res |-> res]
    /\ UNCHANGED <<d, remote, nextId, ret, calls, pre, deleted>>

DecodeWidget ==
    \E terraformWidget \in WidgetBlocks :
        Converted("buildDatadogWidget", terraformWidget,
                  buildDatadogWidget(terraformWidget))

\* how many child widgets a group holds at most
MaxChildren == 2

\* the widget blocks a group may hold: one definition populated, not a group
ChildBlocks ==
    {WidgetBlock({f}) : f \in DefinitionFields \ {DefinitionField(GROUP_WIDGET)}}

\* the group definition blocks with at most MaxChildren child widgets; the
\* widget list is Required, so there is at least one
GroupBlocks ==
    {[layout_type |-> "ordered", title |-> "Group Widget", widget |-> children] :
        children \in UNION {[1..n -> ChildBlocks] : n \in 1..MaxChildren}}

DecodeGroup ==
    \E terraformGroupDefinition \in GroupBlocks :
        Converted("buildDatadogGroupDefinition", terraformGroupDefinition,
                  buildDatadogGroupDefinition(terraformGroupDefinition))

\* the encoder applied to the group definitions the API holds after a decode
EncodeGroup ==
    \E terraformGroupDefinition \in GroupBlocks :
        Converted("buildTerraformGroupDefinition",
                  buildDatadogGroupDefinition(terraformGroupDefinition).val,
                  buildTerraformGroupDefinition(
                      buildDatadogGroupDefinition(terraformGroupDefinition).val))

\* the attributes of a widget block that is not a group
getNonGroupWidgetSchema ==
    {"layout", "note_definition", "alert_graph_definition",
     "alert_value_definition", "check_status_definition",
     "free_text_definition", "iframe_definition", "image_definition",
     "log_stream_definition", "timeseries_definition"}

\* the attributes of a top-level widget block
getWidgetSchema == getNonGroupWidgetSchema \cup {"group_definition"}

\* a group schema whose widget list takes the blocks of getWidgetSchema: C16
\* does not hold of it
getGroupDefinitionSchemaWithGroups ==
    [widget |-> getWidgetSchema, layout_type |-> {}, title |-> {}]

\* the attributes of a group definition block, each with the attributes of
\* its Elem (none for a string)
getGroupDefinitionSchema ==
    [widget |-> getNonGroupWidgetSchema, layout_type |-> {}, title |-> {}]

\* the group definition blocks as a configuration may write them: every
\* child sets one definition, a group's among them
WrittenGroupBlocks ==
    {[layout_type |-> "ordered", title |-> "Group Widget", widget |-> children] :
        children \in UNION {[1..n ->
            {f :> <<SampleDefinition(FieldType(f))>> :
                f \in {"group_definition", "note_definition", "image_definition"}}] :
            n \in 1..MaxChildren}}

\* a written group definition block checked against its schema, and decoded
\* when no child sets an attribute the schema of the widget list lacks
ValidateGroup ==
    \E terraformGroupDefinition \in WrittenGroupBlocks :
        Converted("getGroupDefinitionSchema", terraformGroupDefinition,
                  IF \E i \in 1..Len(terraformGroupDefinition["widget"]) :
                        DOMAIN terraformGroupDefinition["widget"][i]
                            \ getGroupDefinitionSchema["widget"] # {}
                  THEN Fail(<<"invalid or unknown key">>)
                  ELSE buildDatadogGroupDefinition(terraformGroupDefinition))

\* how many template variables or handles a list holds at most
MaxListLen == 3

\* the lists of template variable blocks, every attribute set
TemplateVariableLists ==
    UNION {[1..n -> {[name |-> "var_1", prefix |-> "host", default |-> "aws"],
                     [name |-> "var_2", prefix |-> "service_name",
                      default |-> "autoscaling"],
                     [name |-> "var_3", prefix |-> "env", default |-> "prod"]}] :
           n \in 0..MaxListLen}

\* the lists of handles to notify
NotifyLists ==
    UNION {[1..n -> {"ann@example.com", "bob@example.com"}] : n \in 0..MaxListLen}

\* the lists of widget blocks of a dashboard without groups
WidgetLists == UNION {[1..n -> ChildBlocks] : n \in 1..MaxChildren}

\* a template variable list decoded, or the decoded list encoded
ConvertTemplateVariables ==
    \E terraformTemplateVariables \in TemplateVariableLists :
        \/ Converted("buildDatadogTemplateVariables", terraformTemplateVariables,
                     buildDatadogTemplateVariables(terraformTemplateVariables))
        \/ Converted("buildTerraformTemplateVariables",
                     buildDatadogTemplateVariables(terraformTemplateVariables),
                     buildTerraformTemplateVariables(
                         buildDatadogTemplateVariables(terraformTemplateVariables)))

\* a notify list decoded, or the decoded list encoded
ConvertNotifyList ==
    \E terraformNotifyList \in NotifyLists :
        \/ Converted("buildDatadogNotifyList", terraformNotifyList,
                     buildDatadogNotifyList(terraformNotifyList))
        \/ Converted("buildTerraformNotifyList",
                     buildDatadogNotifyList(terraformNotifyList),
                     buildTerraformNotifyList(
                         buildDatadogNotifyList(terraformNotifyList)))

\* a widget list decoded, or the decoded list encoded
ConvertWidgets ==
    \E terraformWidgets \in WidgetLists :
        \/ Converted("buildDatadogWidgets", terraformWidgets,
                     buildDatadogWidgets(terraformWidgets))
        \/ Converted("buildTerraformWidgets",
                     buildDatadogWidgets(terraformWidgets).val,
                     buildTerraformWidgets(buildDatadogWidgets(terraformWidgets).val))

\* a timeseries definition that sets the legend attributes
LegendDefinition ==
    [request |-> <<[q |-> "avg:system.cpu.user{app:general} by {env}",
                    display_type |-> "line"]>>,
     title |-> "Widget Title", show_legend |-> TRUE, legend_size |-> "2"]

\* a timeseries definition with a log query grouped by a sorted facet; the
\* sort is the map[string]interface{} the framework gives for a TypeMap
SortedLogQueryDefinition ==
    [request |->
        <<[log_query |->
              <<[index |-> "mcnulty",
                 compute |-> [aggregation |-> "count", facet |-> "@duration",
                              interval |-> "5"],
                 search |-> [query |-> "status:info"],
                 group_by |->
                     <<[facet |-> "host", limit |-> 10,
                        sort |-> [dyn |-> InterfaceMapType,
                                  kv |-> [aggregation |-> "avg", order |-> "desc",
                                          facet |-> "@duration"]]]>>]>>,
           display_type |-> "area"]>>,
     title |-> "Widget Title"]

\* well-formed widget blocks, no attribute empty: one of every kind, a group
\* of a note and an image, and the two timeseries definitions above
WellFormedWidgets ==
    {f :> <<SampleDefinition(FieldType(f))>> :
        f \in DefinitionFields \ {"group_definition"}}
    \cup {"timeseries_definition" :> <<m>> :
             m \in {LegendDefinition, SortedLogQueryDefinition}}
    \cup {"group_definition" :>
             <<[layout_type |-> "ordered", title |-> "Group Widget",
                widget |-> <<"note_definition" :> <<SampleDefinition(NOTE_WIDGET)>>,
                             "image_definition" :> <<SampleDefinition(IMAGE_WIDGET)>>>>]>>}

\* a well-formed block decoded and encoded back, or the widget it decodes to
\* encoded and decoded back
RoundTripWidget ==
    \E terraformWidget \in WellFormedWidgets :
        \/ Converted("buildTerraformWidget(buildDatadogWidget)", terraformWidget,
                     buildTerraformWidget(buildDatadogWidget(terraformWidget).val))
        \/ Converted("buildDatadogWidget(buildTerraformWidget)",
                     buildDatadogWidget(terraformWidget).val,
                     buildDatadogWidget(
                         buildTerraformWidget(
                             buildDatadogWidget(terraformWidget).val).val))

\* the request block that populates the query alternatives in alts
TerraformRequest(alts, displayType) ==
    [q |-> IF "q" \in alts THEN "avg:system.cpu.user{app:general} by {env}" ELSE "",
     apm_query |->
         IF "apm_query" \in alts
         THEN <<[index |-> "apm-search",
                 compute |-> [aggregation |-> "count", interval |-> "5"]]>>
         ELSE <<>>,
     log_query |->
         IF "log_query" \in alts
         THEN <<[index |-> "mcnulty",
                 compute |-> [aggregation |-> "count", interval |-> "60"]]>>
         ELSE <<>>,
     process_query |->
         IF "process_query" \in alts
         THEN <<[metric |-> "process.stat.cpu.total_pct", search_by |-> "error",
                 limit |-> 50]>>
         ELSE <<>>,
     display_type |-> displayType]

\* the TimeseriesRequest with the query slots in slots non-nil
DatadogRequest(slots, displayType) ==
    Opt("MetricQuery" \in slots, "MetricQuery",
        "avg:system.cpu.user{app:general} by {env}")
        @@ Opt("ApmQuery" \in slots, "ApmQuery",
               [Index |-> "apm-search",
                Compute |-> [Aggregation |-> "count", Interval |-> 5]])
        @@ Opt("LogQuery" \in slots, "LogQuery",
               [Index |-> "mcnulty",
                Compute |-> [Aggregation |-> "count", Interval |-> 60]])
        @@ Opt("ProcessQuery" \in slots, "ProcessQuery",
               [Metric |-> "process.stat.cpu.total_pct", SearchBy |-> "error",
                Limit |-> 50])
        @@ Opt(displayType # "", "DisplayType", displayType)

DecodeRequests ==
    \E alts \in SUBSET {"q", "apm_query", "log_query", "process_query"},
       displayType \in {"", "line"} :
        Converted("buildDatadogTimeseriesRequests",
                  <<TerraformRequest(alts, displayType)>>,
                  buildDatadogTimeseriesRequests(<<TerraformRequest(alts, displayType)>>))

EncodeRequests ==
    \E slots \in SUBSET {"MetricQuery", "ApmQuery", "LogQuery", "ProcessQuery"},
       displayType \in {"", "line"} :
        Converted("buildTerraformTimeseriesRequests",
                  <<DatadogRequest(slots, displayType)>>,
                  buildTerraformTimeseriesRequests(<<DatadogRequest(slots, displayType)>>))

\* layout maps as the framework hands them over: every value of a TypeMap is
\* a string; "wide" is a string strconv.ParseFloat rejects
TerraformLayouts ==
    UNION {[keys -> {"", "wide", "36", "2.5"}] :
              keys \in SUBSET {"x", "y", "width", "height"}}

DecodeLayout ==
    \E terraformLayout \in TerraformLayouts :
        Converted("buildDatadogWidgetLayout", terraformLayout,
                  buildDatadogWidgetLayout(terraformLayout))

\* the layouts the API can answer with: any subset of the four fields set
EncodeLayout ==
    \E datadogLayout \in {buildDatadogWidgetLayout(l) : l \in TerraformLayouts} :
        Converted("buildTerraformWidgetLayout", datadogLayout,
                  buildTerraformWidgetLayout(datadogLayout))

\* the Optional TypeString attributes of a definition kind's schema that the
\* sample blocks configure
OptionalStrings(type) ==
    CASE type = NOTE_WIDGET ->
           {"background_color", "font_size", "text_align", "tick_pos", "tick_edge"}
      [] type = ALERT_GRAPH_WIDGET -> {"title", "title_size", "title_align"}
      [] type = ALERT_VALUE_WIDGET ->
           {"unit", "text_align", "title", "title_size", "title_align"}
      [] type = CHECK_STATUS_WIDGET -> {"title", "title_size", "title_align"}
      [] type = FREE_TEXT_WIDGET -> {"color", "font_size", "text_align"}
      [] type = IFRAME_WIDGET -> {}
      [] type = IMAGE_WIDGET -> {"sizing", "margin"}
      [] type = LOG_STREAM_WIDGET -> {"query", "title", "title_size", "title_align"}
      [] type = TIMESERIES_WIDGET -> {"title", "title_size", "title_align"}

\* the attributes a kind's decoder reads with an unchecked type assertion
RequiredKeys(type) ==
    CASE type = NOTE_WIDGET -> {"content"}
      [] type = ALERT_GRAPH_WIDGET -> {"alert_id", "viz_type"}
      [] type = ALERT_VALUE_WIDGET -> {"alert_id"}
      [] type = CHECK_STATUS_WIDGET -> {"check", "grouping"}
      [] type = FREE_TEXT_WIDGET -> {"text"}
      [] type = IFRAME_WIDGET -> {"url"}
      [] type = IMAGE_WIDGET -> {"url"}
      [] type = LOG_STREAM_WIDGET -> {"logset"}
      [] type = TIMESERIES_WIDGET -> {"request"}

\* a definition map of the kind in which each optional string is left out
\* ("absent"), holds "" ("empty") or holds a value ("set"), and which lacks
\* the required keys in missing
ConfiguredDefinition(type, how, missing) ==
    [k \in {key \in DOMAIN SampleDefinition(type) \ missing :
               key \in DOMAIN how => how[key] # "absent"} |->
        IF k \in DOMAIN how /\ how[k] = "empty" THEN "" ELSE SampleDefinition(type)[k]]

\* the decoders, on complete maps and on maps that lack one required key
DecodeDefinition ==
    \E type \in {SupportedTypes[i] : i \in 1..Len(SupportedTypes)} \ {GROUP_WIDGET} :
        \E how \in [OptionalStrings(type) -> {"absent", "empty", "set"}],
           missing \in {{}} \cup {{k} : k \in RequiredKeys(type)} :
            Converted("buildDatadogDefinition",
                      [type |-> type, how |-> how, missing |-> missing,
                       def |-> ConfiguredDefinition(type, how, missing)],
                      buildDatadogDefinition(DefinitionField(type),
                                             ConfiguredDefinition(type, how, missing)))

\* the encoders, on the Definitions the decoders build
EncodeDefinition ==
    \E type \in {SupportedTypes[i] : i \in 1..Len(SupportedTypes)} \ {GROUP_WIDGET} :
        \E how \in [OptionalStrings(type) -> {"absent", "empty", "set"}] :
            Converted("buildTerraformDefinition",
                      [type |-> type, how |-> how,
                       def |-> buildDatadogDefinition(DefinitionField(type),
                                   ConfiguredDefinition(type, how, {}))],
                      buildTerraformDefinition(type,
                          buildDatadogDefinition(DefinitionField(type),
                                                 ConfiguredDefinition(type, how, {}))))

\* an APM or log query map.  compute is a TypeMap: it holds the keys the
\* configuration sets, as strings; interval is "absent" when it sets none.
\* sort names the dynamic type of the group_by's sort map, "unsorted" a
\* group_by without sort, "none" a query without group_by.
TerraformQuery(interval, sort, sortFacet) ==
    [index |-> "mcnulty",
     compute |-> [aggregation |-> "count"]
                    @@ Opt(interval # "absent", "interval", interval)]
        @@ Opt(sort # "none", "group_by",
               << [facet |-> "host", limit |-> 10]
                     @@ Opt(sort # "unsorted", "sort",
                            [dyn |-> sort,
                             kv |-> [aggregation |-> "avg", order |-> "desc"]
                                       @@ Opt(sortFacet # "", "facet", sortFacet)]) >>)

DecodeQuery ==
    \E interval \in {"absent", "", "5m", "5", "60"},
       sort \in {"none", "unsorted", InterfaceMapType, StringMapType},
       sortFacet \in {"", "@duration"} :
        Converted("buildDatadogApmOrLogQuery",
                  [interval |-> interval, sort |-> sort, sortFacet |-> sortFacet,
                   query |-> TerraformQuery(interval, sort, sortFacet)],
                  buildDatadogApmOrLogQuery(TerraformQuery(interval, sort, sortFacet)))

\* a widget block whose definition field nilField is a list of one nil
\* element, which is what the framework reads from a block written with no
\* attribute, and whose fields in others hold a definition
UnpopulatedBlock(nilField, others) ==
    [f \in DefinitionFields |->
        IF f = nilField THEN <<NilElem>>
        ELSE IF f \in others THEN <<SampleDefinition(FieldType(f))>> ELSE <<>>]

DecodeUnpopulated ==
    \E nilField \in DefinitionFields :
        \E others \in {fs \in SUBSET (DefinitionFields \ {nilField}) :
                          Cardinality(fs) < MaxKinds} :
            Converted("buildDatadogWidget, first element nil",
                      [nilField |-> nilField, others |-> others,
                       block |-> UnpopulatedBlock(nilField, others)],
                      buildDatadogWidget(UnpopulatedBlock(nilField, others)))

\* the sample timeseries block with the legend attributes as configured:
\* show_legend left out ("absent") or a boolean, legend_size left out or a string
LegendBlock(showLegend, legendSize) ==
    SampleDefinition(TIMESERIES_WIDGET)
        @@ Opt(showLegend # "absent", "show_legend", showLegend = "true")
        @@ Opt(legendSize # "absent", "legend_size", legendSize)

\* the timeseries decoder on those blocks, and the encoder on the Definition
\* the API answers with, which may hold ShowLegend and LegendSize
ConvertLegend ==
    \E showLegend \in {"absent", "true", "false"},
       legendSize \in {"absent", "", "2", "16"} :
        \/ Converted("buildDatadogTimeseriesDefinition",
                     [showLegend |-> showLegend, legendSize |-> legendSize,
                      def |-> LegendBlock(showLegend, legendSize)],
                     buildDatadogTimeseriesDefinition(LegendBlock(showLegend, legendSize)))
        \/ Converted("buildTerraformTimeseriesDefinition",
                     buildDatadogTimeseriesDefinition(SampleDefinition(TIMESERIES_WIDGET))
                        @@ Opt(showLegend # "absent", "ShowLegend", showLegend = "true")
                        @@ Opt(legendSize # "absent", "LegendSize", legendSize),
                     buildTerraformTimeseriesDefinition(
                        buildDatadogTimeseriesDefinition(SampleDefinition(TIMESERIES_WIDGET))
                           @@ Opt(showLegend # "absent", "ShowLegend", showLegend = "true")
                           @@ Opt(legendSize # "absent", "LegendSize", legendSize)))

CodecNext ==
    \/ DecodeWidget
    \/ DecodeGroup
    \/ EncodeGroup
    \/ ValidateGroup
    \/ ConvertTemplateVariables
    \/ ConvertNotifyList
    \/ ConvertWidgets
    \/ RoundTripWidget
    \/ DecodeRequests
    \/ EncodeRequests
    \/ DecodeLayout
    \/ EncodeLayout
    \/ DecodeDefinition
    \/ EncodeDefinition
    \/ DecodeQuery
    \/ DecodeUnpopulated
    \/ ConvertLegend

CodecSpec == CodecInit /\ [][CodecNext]_vars

\* the definition fields a widget block populates
PopulatedFields(terraformWidget) ==
    {f \in DefinitionFields : ListSet(terraformWidget, f)}

\* the first of a set of definition fields in the order of the dispatch
FirstField(fields) ==
    DefinitionField(SupportedTypes[
        CHOOSE i \in 1..Len(SupportedTypes) :
           /\ DefinitionField(SupportedTypes[i]) \in fields
           /\ \A j \in 1..(i - 1) : DefinitionField(SupportedTypes[j]) \notin fields])

\* C11: buildDatadogWidget decodes the first populated definition field in
\* the order group, note, alert_graph, alert_value, check_status, free_text,
\* iframe, image, log_stream, timeseries: the Definition it gives is the one
\* that field's decoder gives and its Type is that field's kind; so a block
\* with exactly one populated field decodes to a Definition of that kind.
C11_FirstPopulatedKindIsDecoded ==
    /\ SupportedTypes = <<"group", "note", "alert_graph", "alert_value",
                          "check_status", "free_text", "iframe", "image",
                          "log_stream", "timeseries">>
    /\ (conv.fn = "buildDatadogWidget" /\ PopulatedFields(conv.arg) # {}) =>
          /\ conv.res.err = NoErr
          /\ conv.res.val["Definition"]["Type"]
                = FieldType(FirstField(PopulatedFields(conv.arg)))
          /\ FirstField(PopulatedFields(conv.arg)) # "group_definition" =>
                conv.res.val["Definition"]
                   = buildDatadogDefinition(
                         FirstField(PopulatedFields(conv.arg)),
                         conv.arg[FirstField(PopulatedFields(conv.arg))][1])
          /\ FirstField(PopulatedFields(conv.arg)) = "group_definition" =>
                conv.res.val["Definition"]
                   = buildDatadogGroupDefinition(conv.arg["group_definition"][1]).val
          /\ \A f \in DefinitionFields :
                PopulatedFields(conv.arg) = {f} =>
                   conv.res.val["Definition"]["Type"] = FieldType(f)

\* a block that populates the image definition alone, decoded to an image
C11_Witness ==
    /\ conv.fn = "buildDatadogWidget"
    /\ PopulatedFields(conv.arg) = {"image_definition"}
    /\ conv.res.err = NoErr
    /\ conv.res.val["Definition"]["Type"] = IMAGE_WIDGET
    /\ conv.res.val["Definition"]["Url"] = "https://example.com/logo.png"

\* C12, as the specification states it: buildDatadogWidget rejects a block
\* that populates more than one definition field with an error.  The code
\* decodes the first populated field and ignores the others: this does not
\* hold.
C12_MoreThanOneKindRejected ==
    (conv.fn = "buildDatadogWidget" /\ Cardinality(PopulatedFields(conv.arg)) > 1) =>
        conv.res.err # NoErr

\* what the code does instead: a block with several populated fields decodes
\* to the widget that the first of them alone decodes to
C12_FirstKindWins ==
    (conv.fn = "buildDatadogWidget" /\ Cardinality(PopulatedFields(conv.arg)) > 1) =>
        /\ conv.res.err = NoErr
        /\ conv.res
              = buildDatadogWidget(WidgetBlock({FirstField(PopulatedFields(conv.arg))}))

\* a block with a note and a timeseries definition, decoded to a note
C12_Witness ==
    /\ conv.fn = "buildDatadogWidget"
    /\ PopulatedFields(conv.arg) = {"note_definition", "timeseries_definition"}
    /\ conv.res.err = NoErr
    /\ conv.res.val["Definition"]["Type"] = NOTE_WIDGET

\* the remote widget holds a Definition whose Type the provider does not convert
Unsupported(datadogWidget) ==
    /\ "Definition" \in DOMAIN datadogWidget
    /\ \A i \in 1..Len(SupportedTypes) :
          SupportedTypes[i] # datadogWidget["Definition"]["Type"]

\* the error of the default case of buildTerraformWidget
UnsupportedError(type) == <<"Unsupported widget type: ", type, " - ", TIMESERIES_WIDGET>>

\* C13: buildTerraformWidget of a top-level remote widget whose Type is not a
\* supported kind returns an error that carries the Type, and
\* buildTerraformWidgets and Read fail with that error and emit no widget list.
C13_UnsupportedTypeFailsRead ==
    (ret.op = "Read" /\ calls[1].err = NoErr) =>
        \A i \in 1..Len(remote[pre.id]["Widgets"]) :
            Unsupported(remote[pre.id]["Widgets"][i]) =>
                /\ buildTerraformWidget(remote[pre.id]["Widgets"][i])
                      = Fail(UnsupportedError(
                                remote[pre.id]["Widgets"][i]["Definition"]["Type"]))
                /\ buildTerraformWidgets(remote[pre.id]["Widgets"]).err # NoErr
                /\ buildTerraformWidgets(remote[pre.id]["Widgets"]).val = NilElem
                /\ ret.err = buildTerraformWidgets(remote[pre.id]["Widgets"]).err
                /\ \E j \in 1..Len(remote[pre.id]["Widgets"]) :
                      /\ Unsupported(remote[pre.id]["Widgets"][j])
                      /\ ret.err = UnsupportedError(
                                      remote[pre.id]["Widgets"][j]["Definition"]["Type"])
                      /\ Contains(ret.err,
                                  remote[pre.id]["Widgets"][j]["Definition"]["Type"])
                /\ d.widget = pre.widget

\* a Read of a dashboard with an event stream widget at the top level
C13_Witness ==
    /\ ret.op = "Read"
    /\ calls[1].err = NoErr
    /\ Unsupported(remote[pre.id]["Widgets"][1])
    /\ ret.err = UnsupportedError(EVENT_STREAM_WIDGET)
    /\ d.widget = pre.widget
    /\ d.widget # <<>>

\* the children of a remote widget that is a group
GroupChildren(datadogWidget) ==
    IF "Definition" \in DOMAIN datadogWidget
          /\ datadogWidget["Definition"]["Type"] = GROUP_WIDGET
          /\ "Widgets" \in DOMAIN datadogWidget["Definition"]
    THEN datadogWidget["Definition"]["Widgets"]
    ELSE <<>>

\* C14, as the specification states it: whenever the fetched dashboard holds
\* a widget of an unsupported type, at the top level or as a child of a
\* group, Read fails with an error.  The code drops the error of a group's
\* child: this does not hold.
C14_UnsupportedTypeNeverSkipped ==
    (ret.op = "Read" /\ calls[1].err = NoErr) =>
        \A i \in 1..Len(remote[pre.id]["Widgets"]) :
            (\/ Unsupported(remote[pre.id]["Widgets"][i])
             \/ \E j \in 1..Len(GroupChildren(remote[pre.id]["Widgets"][i])) :
                   Unsupported(GroupChildren(remote[pre.id]["Widgets"][i])[j])) =>
                ret.err # NoErr

\* what the code does instead: an unsupported child of a group, in a
\* dashboard whose top-level widgets all convert, makes Read return no error
\* and write a nil block in the child's place
C14_UnsupportedChildBlanked ==
    (/\ ret.op = "Read"
     /\ calls[1].err = NoErr
     /\ \A i \in 1..Len(remote[pre.id]["Widgets"]) :
           ~Unsupported(remote[pre.id]["Widgets"][i])) =>
        /\ ret.err = NoErr
        /\ Len(d.widget) = Len(remote[pre.id]["Widgets"])
        /\ \A i \in 1..Len(remote[pre.id]["Widgets"]) :
              \A j \in 1..Len(GroupChildren(remote[pre.id]["Widgets"][i])) :
                 Unsupported(GroupChildren(remote[pre.id]["Widgets"][i])[j]) =>
                    /\ Len(d.widget[i]["group_definition"][1]["widget"])
                          = Len(GroupChildren(remote[pre.id]["Widgets"][i]))
                    /\ d.widget[i]["group_definition"][1]["widget"][j] = NilElem

\* a Read, without error, of a dashboard whose group holds an event stream
\* widget
C14_Witness ==
    /\ ret.op = "Read"
    /\ ret.err = NoErr
    /\ Len(d.widget) = 2
    /\ Len(GroupChildren(remote[pre.id]["Widgets"][2])) = 2
    /\ Unsupported(GroupChildren(remote[pre.id]["Widgets"][2])[2])
    /\ d.widget[2]["group_definition"][1]["widget"][2] = NilElem
    /\ d.widget[2]["group_definition"][1]["widget"][1]["note_definition"][1]["content"]
          = "in the group"

\* the child widgets of a group Definition
DefinitionWidgets(datadogGroupDefinition) ==
    IF "Widgets" \in DOMAIN datadogGroupDefinition
    THEN datadogGroupDefinition["Widgets"]
    ELSE <<>>

\* C15: a group definition block with N well-formed child widgets decodes to
\* a Definition of kind group with exactly N child widgets in the same order,
\* each the buildDatadogWidget of the child block; the encoding of a group
\* Definition has N child blocks in order, each the buildTerraformWidget of
\* the child.
C15_GroupChildrenConvertedInOrder ==
    /\ conv.fn = "buildDatadogGroupDefinition" =>
          /\ conv.res.err = NoErr
          /\ conv.res.val["Type"] = GROUP_WIDGET
          /\ Len(DefinitionWidgets(conv.res.val)) = Len(conv.arg["widget"])
          /\ \A i \in 1..Len(conv.arg["widget"]) :
                DefinitionWidgets(conv.res.val)[i]
                   = buildDatadogWidget(conv.arg["widget"][i]).val
    /\ conv.fn = "buildTerraformGroupDefinition" =>
          /\ Len(conv.res["widget"]) = Len(DefinitionWidgets(conv.arg))
          /\ \A i \in 1..Len(DefinitionWidgets(conv.arg)) :
                /\ buildTerraformWidget(DefinitionWidgets(conv.arg)[i]).err = NoErr
                /\ conv.res["widget"][i]
                      = buildTerraformWidget(DefinitionWidgets(conv.arg)[i]).val

\* the group of the acceptance test: a note and an alert graph, decoded to a
\* group of a note and an alert graph
C15_Witness ==
    /\ conv.fn = "buildDatadogGroupDefinition"
    /\ Len(conv.arg["widget"]) = 2
    /\ PopulatedFields(conv.arg["widget"][1]) = {"note_definition"}
    /\ PopulatedFields(conv.arg["widget"][2]) = {"alert_graph_definition"}
    /\ conv.res.val["Type"] = GROUP_WIDGET
    /\ Len(conv.res.val["Widgets"]) = 2
    /\ conv.res.val["Widgets"][1]["Definition"]["Type"] = NOTE_WIDGET
    /\ conv.res.val["Widgets"][2]["Definition"]["Type"] = ALERT_GRAPH_WIDGET

\* C16: getNonGroupWidgetSchema has no group_definition attribute and
\* getWidgetSchema is that schema with group_definition added; a group
\* definition block with a child that sets group_definition is rejected, and
\* no group that is accepted decodes to a group holding a group.
C16_GroupsDoNotNest ==
    /\ "group_definition" \notin getNonGroupWidgetSchema
    /\ getNonGroupWidgetSchema \subseteq getWidgetSchema
    /\ getWidgetSchema \ getNonGroupWidgetSchema = {"group_definition"}
    /\ conv.fn = "getGroupDefinitionSchema" =>
          /\ (\E i \in 1..Len(conv.arg["widget"]) :
                 "group_definition" \in DOMAIN conv.arg["widget"][i])
                => conv.res.err # NoErr
          /\ conv.res.err = NoErr =>
                \A i \in 1..Len(DefinitionWidgets(conv.res.val)) :
                   DefinitionWidgets(conv.res.val)[i]["Definition"]["Type"]
                      # GROUP_WIDGET

\* a group whose second child is a group: rejected
C16_Witness ==
    /\ conv.fn = "getGroupDefinitionSchema"
    /\ Len(conv.arg["widget"]) = 2
    /\ DOMAIN conv.arg["widget"][1] = {"note_definition"}
    /\ DOMAIN conv.arg["widget"][2] = {"group_definition"}
    /\ conv.res.err # NoErr

\* C17: every list conversion keeps the length and the order, in both
\* directions: the i-th element of the result is the conversion of the i-th
\* element of the argument, for widgets, template variables and the notify
\* list; and a template variable list decoded and encoded back is the list
\* it was.
C17_ListsKeepOrderAndLength ==
    /\ conv.fn = "buildDatadogTemplateVariables" =>
          /\ Len(conv.res) = Len(conv.arg)
          /\ \A i \in 1..Len(conv.arg) :
                conv.res[i] = buildDatadogTemplateVariables(<<conv.arg[i]>>)[1]
          /\ buildTerraformTemplateVariables(conv.res) = conv.arg
    /\ conv.fn = "buildTerraformTemplateVariables" =>
          /\ Len(conv.res) = Len(conv.arg)
          /\ \A i \in 1..Len(conv.arg) :
                /\ conv.res[i] = buildTerraformTemplateVariables(<<conv.arg[i]>>)[1]
                /\ conv.res[i]["name"] = conv.arg[i]["Name"]
    /\ conv.fn \in {"buildDatadogNotifyList", "buildTerraformNotifyList"} =>
          /\ Len(conv.res) = Len(conv.arg)
          /\ \A i \in 1..Len(conv.arg) : conv.res[i] = conv.arg[i]
    /\ conv.fn = "buildDatadogWidgets" =>
          /\ conv.res.err = NoErr
          /\ Len(conv.res.val) = Len(conv.arg)
          /\ \A i \in 1..Len(conv.arg) :
                conv.res.val[i] = buildDatadogWidget(conv.arg[i]).val
    /\ conv.fn = "buildTerraformWidgets" =>
          /\ conv.res.err = NoErr
          /\ Len(conv.res.val) = Len(conv.arg)
          /\ \A i \in 1..Len(conv.arg) :
                conv.res.val[i] = buildTerraformWidget(conv.arg[i]).val

\* the template variables var_1, var_2, var_3, decoded and encoded back in
\* that order
C17_Witness ==
    /\ conv.fn = "buildTerraformTemplateVariables"
    /\ Len(conv.arg) = 3
    /\ conv.arg[1]["Name"] = "var_1"
    /\ conv.arg[2]["Name"] = "var_2"
    /\ conv.arg[3]["Name"] = "var_3"
    /\ conv.res = <<[name |-> "var_1", prefix |-> "host", default |-> "aws"],
                    [name |-> "var_2", prefix |-> "service_name",
                     default |-> "autoscaling"],
                    [name |-> "var_3", prefix |-> "env", default |-> "prod"]>>

\* C18, as the specification states it: for every supported kind, a
\* well-formed configuration block decoded and encoded back is the block it
\* was, and a well-formed Definition encoded and decoded back is the
\* Definition it was.  The first half does not hold of a timeseries
\* definition that sets show_legend or legend_size, or sorts a group_by.
C18_CodecRoundTrips ==
    conv.fn \in {"buildTerraformWidget(buildDatadogWidget)",
                 "buildDatadogWidget(buildTerraformWidget)"} =>
        /\ conv.res.err = NoErr
        /\ conv.res.val = conv.arg

\* what the code does: the round trip holds in both directions for every
\* kind, but for the timeseries blocks that set a legend attribute or a sort:
\* these come back without show_legend and legend_size, and without the sort.
C18_RoundTripButLegendAndSort ==
    /\ conv.fn = "buildDatadogWidget(buildTerraformWidget)" =>
          conv.res.err = NoErr /\ conv.res.val = conv.arg
    /\ conv.fn = "buildTerraformWidget(buildDatadogWidget)" =>
          /\ conv.res.err = NoErr
          /\ DOMAIN conv.res.val = DOMAIN conv.arg
          /\ conv.arg \notin {"timeseries_definition" :> <<LegendDefinition>>,
                              "timeseries_definition" :> <<SortedLogQueryDefinition>>}
                => conv.res.val = conv.arg
          /\ conv.arg = "timeseries_definition" :> <<LegendDefinition>> =>
                conv.res.val["timeseries_definition"][1]
                   = [k \in DOMAIN LegendDefinition \ {"show_legend", "legend_size"} |->
                         LegendDefinition[k]]
          /\ conv.arg = "timeseries_definition" :> <<SortedLogQueryDefinition>> =>
                DOMAIN conv.res.val["timeseries_definition"][1]["request"][1]
                          ["log_query"][1]["group_by"][1]
                   = {"facet", "limit"}

\* the timeseries block with show_legend set, decoded and encoded back
\* without it
C18_Witness ==
    /\ conv.fn = "buildTerraformWidget(buildDatadogWidget)"
    /\ conv.arg = "timeseries_definition" :> <<LegendDefinition>>
    /\ conv.arg["timeseries_definition"][1]["show_legend"] = TRUE
    /\ conv.res.err = NoErr
    /\ "show_legend" \notin DOMAIN conv.res.val["timeseries_definition"][1]

\* the query alternatives a request block populates
PopulatedAlternatives(terraformRequest) ==
    {k \in {"q"} : terraformRequest[k] # ""}
        \cup {k \in {"apm_query", "log_query", "process_query"} :
                Len(terraformRequest[k]) > 0}

\* the query slots of a TimeseriesRequest that are set
PopulatedSlots(datadogRequest) ==
    DOMAIN datadogRequest \cap {"MetricQuery", "ApmQuery", "LogQuery", "ProcessQuery"}

\* C19: of the query alternatives of a request, the first populated one in
\* the order q, apm_query, log_query, process_query is decoded and no other,
\* whatever else is populated and without an error; the encoder writes the
\* first set slot in the order metric, APM, log, process and no other.
C19_FirstQueryAlternativeWins ==
    LET order == <<"q", "apm_query", "log_query", "process_query">>
        slots == <<"MetricQuery", "ApmQuery", "LogQuery", "ProcessQuery">>
        First(seq, present) ==
            CHOOSE i \in 1..4 :
                seq[i] \in present /\ \A j \in 1..(i - 1) : seq[j] \notin present
    IN  /\ (conv.fn = "buildDatadogTimeseriesRequests"
              /\ PopulatedAlternatives(conv.arg[1]) # {}) =>
              /\ Len(conv.res) = 1
              /\ ~Panicked(conv.res[1])
              /\ PopulatedSlots(conv.res[1])
                    = {slots[First(order, PopulatedAlternatives(conv.arg[1]))]}
              /\ conv.res[1]
                    = buildDatadogTimeseriesRequests(
                          <<TerraformRequest(
                                {order[First(order, PopulatedAlternatives(conv.arg[1]))]},
                                conv.arg[1]["display_type"])>>)[1]
        /\ (conv.fn = "buildTerraformTimeseriesRequests"
              /\ PopulatedSlots(conv.arg[1]) # {}) =>
              /\ Len(conv.res) = 1
              /\ ~Panicked(conv.res[1])
              /\ DOMAIN conv.res[1] \ {"display_type"}
                    = {order[First(slots, PopulatedSlots(conv.arg[1]))]}

\* a request with apm_query, log_query and process_query populated, decoded
\* to a request with the APM query alone
C19_Witness ==
    /\ conv.fn = "buildDatadogTimeseriesRequests"
    /\ PopulatedAlternatives(conv.arg[1]) = {"apm_query", "log_query", "process_query"}
    /\ PopulatedSlots(conv.res[1]) = {"ApmQuery"}
    /\ conv.res[1]["ApmQuery"]["Index"] = "apm-search"

\* C20, as the specification states it: every request decoded by
\* buildDatadogTimeseriesRequests has exactly one query slot set.  A request
\* block that populates none of the alternatives decodes to a request with
\* none set: this does not hold.
C20_ExactlyOneQuerySlot ==
    conv.fn = "buildDatadogTimeseriesRequests" =>
        \A i \in 1..Len(conv.res) : Cardinality(PopulatedSlots(conv.res[i])) = 1

\* what the code does: at most one slot is set, and one is set exactly when
\* the block populates an alternative
C20_AtMostOneQuerySlot ==
    conv.fn = "buildDatadogTimeseriesRequests" =>
        \A i \in 1..Len(conv.res) :
            /\ Cardinality(PopulatedSlots(conv.res[i])) <= 1
            /\ PopulatedSlots(conv.res[i]) = {}
                  <=> PopulatedAlternatives(conv.arg[i]) = {}

\* a request block with a display_type and no query, decoded to a request
\* with no slot set
C20_Witness ==
    /\ conv.fn = "buildDatadogTimeseriesRequests"
    /\ PopulatedAlternatives(conv.arg[1]) = {}
    /\ conv.arg[1]["display_type"] = "line"
    /\ conv.res[1] = [DisplayType |-> "line"]

-----------------------------------------------------------------------------
\* the names of the client calls the last handler issued, in order
CallNames == [i \in 1..Len(calls) |-> calls[i].call]

\* C21: no handler issues a client call twice.  Create issues at most one
\* CreateBoard; Read, Exists and Import at most one GetBoard; Delete at most
\* one DeleteBoard; Update at most one UpdateBoard followed by at most one
\* GetBoard.  A call that failed is the last call of its handler, and the
\* handler returns an error (Exists excepted, which answers not-found).
C21_NoCallIsRetried ==
    /\ ret.op = "Create" => CallNames \in {<<>>, <<"CreateBoard">>}
    /\ ret.op \in {"Read", "Exists", "Import"} => CallNames \in {<<>>, <<"GetBoard">>}
    /\ ret.op = "Delete" => CallNames \in {<<>>, <<"DeleteBoard">>}
    /\ ret.op = "Update" =>
          CallNames \in {<<>>, <<"UpdateBoard">>, <<"UpdateBoard", "GetBoard">>}
    /\ ret.op = "none" => calls = <<>>
    /\ \A i \in 1..Len(calls) :
          calls[i].err # NoErr =>
              /\ i = Len(calls)
              /\ ret.op # "Exists" => ret.err # NoErr

\* an Update whose UpdateBoard succeeded and whose fetch failed: two calls,
\* the failed fetch is not repeated
C21_Witness ==
    /\ ret.op = "Update"
    /\ CallNames = <<"UpdateBoard", "GetBoard">>
    /\ calls[1].err = NoErr
    /\ calls[2].err # NoErr
    /\ ret.err = calls[2].err

-----------------------------------------------------------------------------
\* C22: buildDatadogWidgetLayout never fails.  A layout field whose string is
\* empty, missing or not a number is left unset, and every other field is
\* still decoded to the number its string spells; buildTerraformWidgetLayout
\* emits exactly the fields that are set, each formatted from its number.
C22_LayoutDecodingNeverFails ==
    /\ conv.fn = "buildDatadogWidgetLayout" =>
          /\ DOMAIN conv.res \subseteq {"X", "Y", "Width", "Height"}
          /\ \A k \in {"x", "y", "width", "height"} :
                LET field == CASE k = "x" -> "X" [] k = "y" -> "Y"
                               [] k = "width" -> "Width" [] OTHER -> "Height"
                    parses == k \in DOMAIN conv.arg /\ conv.arg[k] \in {"36", "2.5"}
                IN  /\ field \in DOMAIN conv.res <=> parses
                    /\ parses => conv.res[field] = (IF conv.arg[k] = "36" THEN 360 ELSE 25)
    /\ conv.fn = "buildTerraformWidgetLayout" =>
          /\ DOMAIN conv.res \subseteq {"x", "y", "width", "height"}
          /\ \A k \in {"x", "y", "width", "height"} :
                LET field == CASE k = "x" -> "X" [] k = "y" -> "Y"
                               [] k = "width" -> "Width" [] OTHER -> "Height"
                IN  /\ k \in DOMAIN conv.res <=> field \in DOMAIN conv.arg
                    /\ k \in DOMAIN conv.res =>
                          conv.res[k] = (IF conv.arg[field] = 360 THEN "36" ELSE "2.5")

\* a layout with an empty x, a y that is no number, and a width and height
\* that parse: x and y unset, width and height decoded
C22_Witness ==
    /\ conv.fn = "buildDatadogWidgetLayout"
    /\ conv.arg = [x |-> "", y |-> "wide", width |-> "36", height |-> "2.5"]
    /\ conv.res = [Width |-> 360, Height |-> 25]

-----------------------------------------------------------------------------
\* the keys of a configured definition block that hold a value: every key of
\* the kind but the optional strings left out or configured as ""
SetKeys(type, how) ==
    DOMAIN SampleDefinition(type) \ {k \in DOMAIN how : how[k] # "set"}

-----------------------------------------------------------------------------
-----------------------------------------------------------------------------
\* C25, as the specification states it: the compute interval of an APM or
\* log query is optional; a compute map with aggregation and no interval
\* decodes successfully with Interval unset, and so does one whose interval
\* is not an integer.  The decoder reads interval with an unchecked type
\* assertion: on a compute map without the key this does not hold.
C25_IntervalIsOptional ==
    conv.fn = "buildDatadogApmOrLogQuery" =>
        /\ ~Panicked(conv.res)
        /\ "Interval" \in DOMAIN conv.res["Compute"] <=> conv.arg.interval \in {"5", "60"}

\* what the code does: a compute map that holds an interval string decodes,
\* with Interval set exactly when the string is an integer, to that integer;
\* a compute map without the key makes the decoder panic
C25_AbsentIntervalPanics ==
    conv.fn = "buildDatadogApmOrLogQuery" =>
        IF conv.arg.interval = "absent"
        THEN /\ Panicked(conv.res)
             /\ conv.res[PanicKey] = "interface conversion: interface {} is nil, not string"
        ELSE /\ ~Panicked(conv.res)
             /\ conv.res["Compute"]["Aggregation"] = "count"
             /\ "Interval" \in DOMAIN conv.res["Compute"]
                   <=> conv.arg.interval \in {"5", "60"}
             /\ conv.arg.interval = "5" => conv.res["Compute"]["Interval"] = 5
             /\ conv.arg.interval = "60" => conv.res["Compute"]["Interval"] = 60

\* compute = { aggregation = "count" }: the decoder panics
C25_Witness ==
    /\ conv.fn = "buildDatadogApmOrLogQuery"
    /\ conv.arg.query["compute"] = [aggregation |-> "count"]
    /\ Panicked(conv.res)

\* C26, as the specification states it: a group_by entry configured with a
\* sort object decodes to a group-by whose Sort is set with the same
\* aggregation, order and facet.  The sort map the framework reads from the
\* configuration is a map[string]interface{}, which the decoder's assertion
\* to map[string]string rejects: this does not hold.
C26_ConfiguredSortIsDecoded ==
    conv.fn = "buildDatadogApmOrLogQuery" /\ conv.arg.interval = "5"
        /\ conv.arg.sort \in {InterfaceMapType, StringMapType} =>
        /\ "Sort" \in DOMAIN conv.res["GroupBy"][1]
        /\ conv.res["GroupBy"][1]["Sort"] =
              [Aggregation |-> "avg", Order |-> "desc"]
                 @@ Opt(conv.arg.sortFacet # "", "Facet", conv.arg.sortFacet)

\* what the code does: Sort is set, with the same values, exactly when the
\* sort map is a map[string]string; facet and limit are decoded either way
C26_SortDecodedFromStringMapOnly ==
    conv.fn = "buildDatadogApmOrLogQuery" /\ conv.arg.interval = "5"
        /\ conv.arg.sort # "none" =>
        /\ Len(conv.res["GroupBy"]) = 1
        /\ conv.res["GroupBy"][1]["Facet"] = "host"
        /\ conv.res["GroupBy"][1]["Limit"] = 10
        /\ "Sort" \in DOMAIN conv.res["GroupBy"][1] <=> conv.arg.sort = StringMapType
        /\ conv.arg.sort = StringMapType =>
              conv.res["GroupBy"][1]["Sort"] =
                 [Aggregation |-> "avg", Order |-> "desc"]
                    @@ Opt(conv.arg.sortFacet # "", "Facet", conv.arg.sortFacet)

\* a group_by whose sort the framework read from the configuration: decoded
\* without Sort
C26_Witness ==
    /\ conv.fn = "buildDatadogApmOrLogQuery"
    /\ conv.arg.sort = InterfaceMapType
    /\ conv.arg.sortFacet = "@duration"
    /\ conv.arg.query["group_by"][1]["sort"] =
          [dyn |-> InterfaceMapType,
           kv |-> [aggregation |-> "avg", order |-> "desc", facet |-> "@duration"]]
    /\ conv.arg.interval = "5"
    /\ conv.res["GroupBy"] = <<[Facet |-> "host", Limit |-> 10]>>

-----------------------------------------------------------------------------
\* C27, as the specification states it: a definition field counts as present
\* only when it is a non-empty list whose first element is populated; every
\* widget buildDatadogWidget returns without error holds a Definition, and a
\* block whose only non-empty definition field has an unpopulated first
\* element fails with the no-definition error.  The dispatch selects a field
\* on the length of its list alone: this does not hold.
C27_ReturnedWidgetHasDefinition ==
    /\ conv.fn = "buildDatadogWidget" =>
          (conv.res.err = NoErr => "Definition" \in DOMAIN conv.res.val)
    /\ conv.fn = "buildDatadogWidget, first element nil" =>
          /\ conv.res.err = NoErr => "Definition" \in DOMAIN conv.res.val
          /\ conv.arg.others = {} => conv.res.err = NoDefinitionError

\* what the code does: the first non-empty list in the order of the dispatch
\* is selected whatever its first element is.  When that element is not a
\* map the widget is returned without error and without Definition, and the
\* fields after it are not looked at; the no-definition error is returned
\* only when every list is empty.
C27_FieldSelectedByLengthAlone ==
    /\ conv.fn = "buildDatadogWidget" =>
          (conv.res.err = NoDefinitionError <=> PopulatedFields(conv.arg) = {})
    /\ conv.fn = "buildDatadogWidget, first element nil" =>
          /\ conv.res.err = NoErr
          /\ IF FirstField({conv.arg.nilField} \cup conv.arg.others) = conv.arg.nilField
             THEN "Definition" \notin DOMAIN conv.res.val
             ELSE /\ "Definition" \in DOMAIN conv.res.val
                  /\ conv.res.val["Definition"]["Type"]
                        = FieldType(FirstField(conv.arg.others))

\* timeseries_definition { } and nothing else: a widget without Definition,
\* returned without error
C27_Witness ==
    /\ conv.fn = "buildDatadogWidget, first element nil"
    /\ conv.arg.nilField = "timeseries_definition"
    /\ conv.arg.others = {}
    /\ conv.arg.block["timeseries_definition"] = <<NilElem>>
    /\ conv.res = Ok(EmptyMap)

-----------------------------------------------------------------------------
\* C28: a Read that fetched the dashboard and failed to convert its widgets
\* has already overwritten title, layout_type, description and is_read_only
\* with the fetched values, while widget, template_variable, notify_list and
\* the id keep the values they had before the Read.
C28_FailedReadIsNotAtomic ==
    (ret.op = "Read" /\ calls[1].err = NoErr /\ ret.err # NoErr) =>
        /\ \E i \in 1..Len(remote[pre.id]["Widgets"]) :
              Unsupported(remote[pre.id]["Widgets"][i])
        /\ d.title = remote[pre.id]["Title"]
        /\ d.layout_type = remote[pre.id]["LayoutType"]
        /\ d.description = (IF "Description" \in DOMAIN remote[pre.id]
                            THEN remote[pre.id]["Description"] ELSE "")
        /\ d.is_read_only = (IF "IsReadOnly" \in DOMAIN remote[pre.id]
                             THEN remote[pre.id]["IsReadOnly"] ELSE FALSE)
        /\ d.widget = pre.widget
        /\ d.template_variable = pre.template_variable
        /\ d.notify_list = pre.notify_list
        /\ d.id = pre.id

\* a Read of a dashboard edited remotely to hold an event stream widget: the
\* title and description are the remote ones, the three lists are the old ones
C28_Witness ==
    /\ ret.op = "Read"
    /\ ret.err = UnsupportedError(EVENT_STREAM_WIDGET)
    /\ pre.title # "Events"
    /\ d.title = "Events"
    /\ d.description = "event stream"
    /\ pre.description # "event stream"
    /\ d.widget = pre.widget
    /\ d.widget # <<>>
    /\ d.template_variable = pre.template_variable
    /\ d.template_variable # <<>>
    /\ d.notify_list = pre.notify_list
    /\ d.notify_list # <<>>

-----------------------------------------------------------------------------
\* C29: the dashboard that Create and Update send holds IsReadOnly only when
\* is_read_only is configured true and Description only when description is
\* not ""; its Id is the resource's id and its Widgets, NotifyList and
\* TemplateVariables are always filled in, one entry per configured entry.
\* So an Update of a dashboard that is read-only remotely, with is_read_only
\* configured false, sends a dashboard without IsReadOnly.
C29_ZeroValuesAreNotSent ==
    [][(ret'.op \in {"Create", "Update"} /\ calls' # <<>>) =>
          /\ {"Id", "Widgets", "NotifyList", "TemplateVariables"}
                \subseteq DOMAIN calls'[1].board
          /\ calls'[1].board["Id"] = d.id
          /\ Len(calls'[1].board["Widgets"]) = Len(d.widget)
          /\ Len(calls'[1].board["NotifyList"]) = Len(d.notify_list)
          /\ Len(calls'[1].board["TemplateVariables"]) = Len(d.template_variable)
          /\ "IsReadOnly" \in DOMAIN calls'[1].board <=> d.is_read_only
          /\ d.is_read_only => calls'[1].board["IsReadOnly"] = TRUE
          /\ "Description" \in DOMAIN calls'[1].board <=> d.description # ""
          /\ d.description # "" => calls'[1].board["Description"] = d.description
          /\ (ret'.op = "Update" /\ d.id \in DOMAIN remote
                 /\ "IsReadOnly" \in DOMAIN remote[d.id] /\ ~d.is_read_only) =>
                "IsReadOnly" \notin DOMAIN calls'[1].board]_vars

\* an Update with is_read_only false and description "": the dashboard sent
\* holds neither field, and holds the lists
C29_Witness ==
    /\ ret.op = "Update"
    /\ calls # <<>>
    /\ calls[1].err = NoErr
    /\ pre.is_read_only = FALSE
    /\ pre.description = ""
    /\ DOMAIN calls[1].board =
          {"Id", "Title", "LayoutType", "Widgets", "NotifyList", "TemplateVariables"}
    /\ calls[1].board["Id"] = pre.id
    /\ calls[1].board["NotifyList"] # <<>>

-----------------------------------------------------------------------------
\* C30: show_legend and legend_size are copied in neither direction.  A
\* timeseries block decodes to the Definition that the same block without
\* the two attributes decodes to, so two blocks that differ only in them
\* decode to the same Definition, which holds neither field; and no encoded
\* timeseries definition holds either key, whatever the Definition holds.
C30_LegendAttributesAreNotCopied ==
    /\ conv.fn = "buildDatadogTimeseriesDefinition" =>
          /\ conv.res = buildDatadogTimeseriesDefinition(
                            [k \in DOMAIN conv.arg.def \ {"show_legend", "legend_size"} |->
                                conv.arg.def[k]])
          /\ conv.res = buildDatadogTimeseriesDefinition(LegendBlock("absent", "absent"))
          /\ DOMAIN conv.res =
                {"Type", "Requests", "Title", "TitleSize", "TitleAlign", "Time"}
    /\ conv.fn = "buildTerraformTimeseriesDefinition" =>
          /\ DOMAIN conv.res = {"request", "title", "title_size", "title_align", "time"}
          /\ conv.res = SampleDefinition(TIMESERIES_WIDGET)
    /\ (conv.fn = "buildTerraformDefinition" /\ conv.arg.type = TIMESERIES_WIDGET) =>
          {"show_legend", "legend_size"} \cap DOMAIN conv.res = {}
    /\ (conv.fn = "buildTerraformWidget(buildDatadogWidget)"
           /\ "timeseries_definition" \in DOMAIN conv.arg) =>
          {"show_legend", "legend_size"}
             \cap DOMAIN conv.res.val["timeseries_definition"][1] = {}

\* a block with show_legend = true and legend_size = "16", decoded to the
\* Definition of the block that sets neither
C30_Witness ==
    /\ conv.fn = "buildDatadogTimeseriesDefinition"
    /\ conv.arg.showLegend = "true"
    /\ conv.arg.legendSize = "16"
    /\ conv.arg.def["show_legend"] = TRUE
    /\ conv.arg.def["legend_size"] = "16"
    /\ conv.res = buildDatadogTimeseriesDefinition(SampleDefinition(TIMESERIES_WIDGET))
    /\ conv.res["Title"] = "Widget Title"

====
